---- MODULE Spec2Model ----
(***************************************************************************)
(* Model of the two core subsystems of ng-web-assembly:                    *)
(*   - WasmMemoryManager (memory-manager.ts) on top of the bump allocator  *)
(*     exported by computation.wat (allocate / reset_heap / get_heap_usage)*)
(*   - WasmWorkerPool (worker-pool.service.ts) together with the message   *)
(*     loop of computation.worker.ts.                                      *)
(* The arena and the pool do not share state; SpecArena and SpecPool are   *)
(* the two specifications.                                                 *)
(***************************************************************************)
EXTENDS Integers, Sequences, FiniteSets, TLC

\* ------------------------------------------------------------------------
\* Program constants
\* ------------------------------------------------------------------------
BYTES_PER_PAGE == 65536
RESERVED_BYTES == 65536
WatInitialPages == 256
WatMaxPages == 512
DefaultMaxPages == 16384

\* ------------------------------------------------------------------------
\* Bounds of the arena model
\* ------------------------------------------------------------------------
MaxAllocs == 3
MaxSmallLen == 2

\* One request that exactly fills the free pages of the initial memory (all
\* but the reserved first page) when taken as f64 elements
BigLen == ((WatInitialPages - 1) * BYTES_PER_PAGE) \div 8

\* ------------------------------------------------------------------------
\* Bounds of the pool model
\* ------------------------------------------------------------------------
MaxSpawned == 2
MaxTasks == 13
MaxTasksMulti == 4
MaxFaults == 1
MaxDim == 3
MaxTransposes == 2
MaxKeys == 3
MaxCacheSize == 2
MaxTransfers == 4
MaxInits == 5

WorkerIds == 1..MaxSpawned

\* performance.now() - task.startTime: the clock is outside the program;
\* the turnaround tried for request id is 1 or 2 ms, by the parity of id,
\* so that the running average takes different values
ElapsedTimes(id) == {1 + (id % 2)}

\* getAvailableWorker: `bestCount < 10`
SaturationCap == 10

\* the typed array constructors the requests of the model use
ElementKinds == {"f64", "u8"}

BytesPerElement(kind) ==
  CASE kind = "f64" -> 8
    [] kind = "f32" -> 4
    [] kind = "i32" -> 4
    [] kind = "u8" -> 1

\* the (Constructor, length) pairs allocate is called with: Float64Array
\* of 0, 1, MaxSmallLen and BigLen elements, and Uint8Array of one element
\* (a size that is not a multiple of 8)
Requests ==
  {<<"f64", n>> : n \in {0, 1, MaxSmallLen, BigLen}} \cup {<<"u8", 1>>}

\* MemoryPoolConfig values the manager is initialized with
DefaultConfig ==
  [maxPages |-> DefaultMaxPages, enableTracking |-> TRUE, autoGrow |-> TRUE]

Configs ==
  {DefaultConfig,
   [DefaultConfig EXCEPT !.autoGrow = FALSE, !.enableTracking = FALSE],
   [DefaultConfig EXCEPT !.maxPages = WatInitialPages + 1]}

VARIABLES
  \* ---- arena (memory-manager.ts + computation.wat) ----
  heap_ptr,       \* global $heap_ptr of the wasm instance
  memPages,       \* size of wasm.memory in 64 KiB pages
  config,         \* this.config
  allocations,    \* this.allocations, as the set of its blocks (unique ptr)
  freeList,       \* this.freeList
  metrics,        \* this._metrics (the four allocation counters)
  handles,        \* every WasmBackedArray handed out, in order of creation
  lastOp,         \* the last arena, engine or object call and its outcome
  \* ---- engine objects (wasm-signal-engine.ts) ----
  objects,        \* the WasmVector / WasmMatrix made, one per handle
  \* ---- coordinator (worker-pool.service.ts) ----
  workers,        \* this.workers, as the sequence of the workers' numbers
  initialized,    \* this.initialized
  taskIdCounter,  \* this.taskIdCounter
  taskQueue,      \* this.taskQueue, as the sequence of the queued ids
  pendingTasks,   \* pooled.pendingTasks of every worker, as its set of ids
  busy,           \* pooled.busy of every worker
  taskCount,      \* pooled.taskCount of every worker
  activeWorkers,  \* this._activeWorkers
  queuedTasks,    \* this._queuedTasks
  totalTasksCompleted,  \* this._totalTasksCompleted
  averageTaskTimeMs,    \* this._averageTaskTimeMs, as a reduced fraction
  future,         \* state of the promise of every request, by id
  resettled,      \* a settled promise had resolve or reject called again
  initCalls,      \* the calls of init(): awaited init ids, outcome, re-run
  unknownWarnings,  \* number of 'unknown task' warnings logged so far
  \* ---- history of the submissions (not program state) ----
  burst,          \* computes submitted to an idle pool with no event between
  burstQueued,    \* id queued as the last request of a saturating burst
  \* ---- workers (computation.worker.ts) ----
  wstate,         \* "unspawned", "running" or "terminated"
  wasm,           \* whether the worker's `wasm` is set
  initRunning,    \* id of the init whose handleInit is awaiting, or 0
  inbox,          \* messages posted to the worker and not yet handled
  outbox,         \* messages posted by the worker and not yet delivered
  errorEvents,    \* number of worker.onerror events so far
  failures,       \* number of failed fetches and trapped kernels so far
  \* ---- linear memory seen by the kernels (computation.wat) ----
  linear,         \* the f64 cells of the memory, by byte address
  mats,           \* the matrices laid out in it: ptr, rows, cols
  \* ---- memoizedComputation (reactive-primitives.ts) ----
  maxSize,        \* the maxSize argument
  cache,          \* the keys of `cache`
  keys,           \* `keys`
  recency,        \* history: the keys asked for, least recently used first
  \* ---- the arena of one worker (computation.worker.ts, computation.wat) ----
  privateWasm,    \* the worker's `wasm`: "null" or "instance"
  privateHeapPtr, \* (global $heap_ptr) of the worker's instance
  privateRegions, \* the regions handleCompute allocated in that instance
  posted,         \* the message the worker posted last: type and payload
  \* ---- WasmSignalEngine.init (wasm-signal-engine.ts) ----
  state,          \* this._state()
  error,          \* this._error(): "null" or the code of the WasmError
  engineWasm,     \* this.wasm: "null" or "instance"
  loads,          \* number of loads (fetch and instantiate) in flight
  inits           \* history: the outcome of every call of init() so far

memVars == <<heap_ptr, memPages, config, allocations, freeList, metrics,
             handles>>

arenaVars == <<memVars, lastOp>>

coordVars == <<workers, initialized, taskIdCounter, taskQueue, pendingTasks,
               busy, taskCount, activeWorkers, queuedTasks,
               totalTasksCompleted, averageTaskTimeMs, future, resettled,
               initCalls, unknownWarnings, burst, burstQueued>>

workerVars == <<wstate, wasm, initRunning, inbox, outbox, errorEvents,
                failures>>

poolVars == <<coordVars, workerVars>>

engineVars == <<objects>>

kernelVars == <<linear, mats>>

memoVars == <<maxSize, cache, keys, recency>>

\* the state of the modules that stand alone
privateVars == <<privateWasm, privateHeapPtr, privateRegions, posted>>

loadVars == <<state, error, engineWasm, loads, inits>>

auxVars == <<memoVars, privateVars, loadVars>>

vars == <<arenaVars, poolVars, engineVars, kernelVars, auxVars>>

\* ------------------------------------------------------------------------
\* computation.wat
\* ------------------------------------------------------------------------
\* mutant of AlignUp8: the size is not rounded
AlignUp8None(size) == size

AlignUp8(size) == ((size + 7) \div 8) * 8

\* i32.add; the sums of this model stay far below 2^31, so no wrap-around
WatHeapAfterAllocate(hp, size) == hp + AlignUp8(size)

get_heap_usage == heap_ptr - RESERVED_BYTES

\* mutant of reset_heap: the heap pointer is left where it is
reset_heap_keep == heap_ptr

\* the value reset_heap gives $heap_ptr
reset_heap == RESERVED_BYTES

byteLength == memPages * BYTES_PER_PAGE

\* ------------------------------------------------------------------------
\* memory-manager.ts
\* ------------------------------------------------------------------------
CeilDiv(a, b) == (a + b - 1) \div b

RECURSIVE BestIndexFrom(_, _, _, _, _)
BestIndexFrom(fl, bytesNeeded, i, bestIndex, bestSize) ==
  IF i > Len(fl) THEN bestIndex
  ELSE IF fl[i].size >= bytesNeeded /\ (bestIndex = 0 \/ fl[i].size < bestSize)
       THEN BestIndexFrom(fl, bytesNeeded, i + 1, i, fl[i].size)
       ELSE BestIndexFrom(fl, bytesNeeded, i + 1, bestIndex, bestSize)

\* mutant of findFreeBlock: the first block that is large enough
findFreeBlockFirst(fl, bytesNeeded) ==
  IF \E i \in 1..Len(fl) : fl[i].size >= bytesNeeded
  THEN CHOOSE i \in 1..Len(fl) :
         /\ fl[i].size >= bytesNeeded
         /\ \A j \in 1..(i - 1) : fl[j].size < bytesNeeded
  ELSE 0

\* mutant of findFreeBlock: `block.size > bytesNeeded`
findFreeBlockStrict(fl, bytesNeeded) ==
  BestIndexFrom(fl, bytesNeeded + 1, 1, 0, 0)

\* index (1-based) of the block findFreeBlock picks, 0 when there is none
findFreeBlock(fl, bytesNeeded) == BestIndexFrom(fl, bytesNeeded, 1, 0, 0)

RemoveAt(s, i) == SubSeq(s, 1, i - 1) \o SubSeq(s, i + 1, Len(s))

availableBytes == byteLength - get_heap_usage - RESERVED_BYTES

\* mutant of additionalPages: Math.floor(...) + 1
additionalPagesFloor(bytesNeeded) ==
  ((bytesNeeded - availableBytes) \div BYTES_PER_PAGE) + 1

additionalPages(bytesNeeded) ==
  CeilDiv(bytesNeeded - availableBytes, BYTES_PER_PAGE)

\* mutant of ensureCapacity: the capacity is never checked
ensureCapacityNever(bytesNeeded) == "ok"

\* outcome of ensureCapacity(bytesNeeded): "ok", "grow" or the error thrown
ensureCapacity(bytesNeeded) ==
  IF availableBytes < bytesNeeded
  THEN IF ~config.autoGrow THEN "OUT_OF_MEMORY"
       ELSE IF memPages + additionalPages(bytesNeeded) > config.maxPages
            THEN "OUT_OF_MEMORY"
            ELSE IF memPages + additionalPages(bytesNeeded) > WatMaxPages
                 THEN "RangeError"
                 ELSE "grow"
  ELSE "ok"

Max(a, b) == IF a >= b THEN a ELSE b

\* mutant of updateMetrics: 'reset' clears the peak as well
updateMetricsClearPeak(m, operation, bytes) ==
  IF ~config.enableTracking THEN m
  ELSE CASE operation = "allocate" ->
              [m EXCEPT !.totalAllocations = @ + 1,
                        !.currentMemoryUsage = @ + bytes,
                        !.peakMemoryUsage =
                            Max(@, m.currentMemoryUsage + bytes)]
         [] operation = "deallocate" ->
              [m EXCEPT !.totalDeallocations = @ + 1,
                        !.currentMemoryUsage = Max(0, @ - bytes)]
         [] operation = "reset" ->
              [m EXCEPT !.currentMemoryUsage = 0, !.peakMemoryUsage = 0]

updateMetrics(m, operation, bytes) ==
  IF ~config.enableTracking THEN m
  ELSE CASE operation = "allocate" ->
              [m EXCEPT !.totalAllocations = @ + 1,
                        !.currentMemoryUsage = @ + bytes,
                        !.peakMemoryUsage =
                            Max(@, m.currentMemoryUsage + bytes)]
         [] operation = "deallocate" ->
              [m EXCEPT !.totalDeallocations = @ + 1,
                        !.currentMemoryUsage = Max(0, @ - bytes)]
         [] operation = "reset" ->
              [m EXCEPT !.currentMemoryUsage = 0]

ZeroMetrics ==
  [totalAllocations |-> 0, totalDeallocations |-> 0,
   peakMemoryUsage |-> 0, currentMemoryUsage |-> 0]

\* this.allocations.set(ptr, block)
MapSet(allocs, block) == {b \in allocs : b.ptr # block.ptr} \cup {block}

\* the state right after WasmMemoryManager.initialize(wasm, config)
InitArena ==
  /\ heap_ptr = RESERVED_BYTES
  /\ memPages = WatInitialPages
  /\ config \in Configs
  /\ allocations = {}
  /\ freeList = <<>>
  /\ metrics = ZeroMetrics
  /\ handles = <<>>
  /\ lastOp = [op |-> "initialize", err |-> "none"]

\* allocate(Constructor, length): the block is taken from the free list
allocateReuse(kind, length) ==
  LET bytesNeeded == length * BytesPerElement(kind)
      i == findFreeBlock(freeList, bytesNeeded)
      ptr == freeList[i].ptr
      block == [ptr |-> ptr, size |-> bytesNeeded]
  IN /\ Len(handles) < MaxAllocs
     /\ i # 0
     /\ freeList' = RemoveAt(freeList, i)
     /\ allocations' = MapSet(allocations, block)
     /\ metrics' = updateMetrics(metrics, "allocate", bytesNeeded)
     /\ handles' = Append(handles,
                     [ptr |-> ptr, size |-> bytesNeeded, live |-> TRUE,
                      pages |-> memPages])
     /\ UNCHANGED <<heap_ptr, memPages, config>>

AllocateReuse(kind, length) ==
  /\ allocateReuse(kind, length)
  /\ lastOp' = [op |-> "allocate", err |-> "none"]
  /\ UNCHANGED <<poolVars, kernelVars, auxVars, engineVars>>

\* allocate(Constructor, length): free-list miss, bump allocation
allocateBump(kind, length) ==
  LET bytesNeeded == length * BytesPerElement(kind)
      ptr == heap_ptr
      block == [ptr |-> ptr, size |-> bytesNeeded]
  IN /\ Len(handles) < MaxAllocs
     /\ findFreeBlock(freeList, bytesNeeded) = 0
     /\ ensureCapacity(bytesNeeded) \in {"ok", "grow"}
     /\ memPages' = IF ensureCapacity(bytesNeeded) = "grow"
                    THEN memPages + additionalPages(bytesNeeded)
                    ELSE memPages
     /\ heap_ptr' = WatHeapAfterAllocate(heap_ptr, bytesNeeded)
     /\ allocations' = MapSet(allocations, block)
     /\ metrics' = updateMetrics(metrics, "allocate", bytesNeeded)
     /\ handles' = Append(handles,
                     [ptr |-> ptr, size |-> bytesNeeded, live |-> TRUE,
                      pages |-> memPages'])
     /\ UNCHANGED <<config, freeList>>

AllocateBump(kind, length) ==
  /\ allocateBump(kind, length)
  /\ lastOp' = [op |-> "allocate", err |-> "none"]
  /\ UNCHANGED <<poolVars, kernelVars, auxVars, engineVars>>

\* mutant of allocateFail: the allocation is counted before the capacity is
\* checked
allocateFailCounted(kind, length) ==
  LET bytesNeeded == length * BytesPerElement(kind)
  IN /\ Len(handles) < MaxAllocs
     /\ findFreeBlock(freeList, bytesNeeded) = 0
     /\ ensureCapacity(bytesNeeded) \notin {"ok", "grow"}
     /\ metrics' = updateMetrics(metrics, "allocate", bytesNeeded)
     /\ UNCHANGED <<heap_ptr, memPages, config, allocations, freeList,
                    handles>>

\* allocate(Constructor, length): ensureCapacity or memory.grow throws
allocateFail(kind, length) ==
  LET bytesNeeded == length * BytesPerElement(kind)
  IN /\ Len(handles) < MaxAllocs
     /\ findFreeBlock(freeList, bytesNeeded) = 0
     /\ ensureCapacity(bytesNeeded) \notin {"ok", "grow"}
     /\ UNCHANGED <<heap_ptr, memPages, config, allocations, freeList, metrics,
                    handles>>

AllocateFail(kind, length) ==
  /\ allocateFail(kind, length)
  /\ lastOp' = [op |-> "allocate",
                err |-> ensureCapacity(length * BytesPerElement(kind))]
  /\ UNCHANGED <<poolVars, kernelVars, auxVars, engineVars>>

\* mutant of deallocate: the block is merged with a free block that ends
\* where it starts
deallocateCoalescing(ptr) ==
  IF \E b \in allocations : b.ptr = ptr
  THEN LET block == CHOOSE b \in allocations : b.ptr = ptr
           before == {i \in 1..Len(freeList) :
                        freeList[i].ptr + freeList[i].size = block.ptr}
       IN /\ freeList' =
               IF before # {}
               THEN [freeList EXCEPT ![CHOOSE i \in before : TRUE].size =
                                        @ + block.size]
               ELSE Append(freeList, block)
          /\ allocations' = allocations \ {block}
          /\ metrics' = updateMetrics(metrics, "deallocate", block.size)
  ELSE UNCHANGED <<freeList, allocations, metrics>>

\* mutant of deallocate: the unknown pointer is counted as a deallocation
deallocateCounting(ptr) ==
  IF \E b \in allocations : b.ptr = ptr
  THEN LET block == CHOOSE b \in allocations : b.ptr = ptr
       IN /\ freeList' = Append(freeList, block)
          /\ allocations' = allocations \ {block}
          /\ metrics' = updateMetrics(metrics, "deallocate", block.size)
  ELSE /\ metrics' = updateMetrics(metrics, "deallocate", 0)
       /\ UNCHANGED <<freeList, allocations>>

\* deallocate(ptr)
deallocate(ptr) ==
  IF \E b \in allocations : b.ptr = ptr
  THEN LET block == CHOOSE b \in allocations : b.ptr = ptr
       IN /\ freeList' = Append(freeList, block)
          /\ allocations' = allocations \ {block}
          /\ metrics' = updateMetrics(metrics, "deallocate", block.size)
  ELSE UNCHANGED <<freeList, allocations, metrics>>

\* what deallocate(ptr) reports: console.warn for an unknown pointer
deallocateReport(ptr) ==
  IF \E b \in allocations : b.ptr = ptr THEN "none" ELSE "warn"

\* handle.dispose() of the h-th WasmBackedArray: () => this.deallocate(ptr)
Dispose(h) ==
  /\ h \in 1..Len(handles)
  /\ deallocate(handles[h].ptr)
  /\ lastOp' = [op |-> "deallocate", err |-> deallocateReport(handles[h].ptr)]
  /\ handles' = [handles EXCEPT ![h].live = FALSE]
  /\ UNCHANGED <<poolVars, kernelVars, auxVars, engineVars, heap_ptr, memPages,
                 config>>

\* offsets deallocate is called with directly that allocate never returns
NeverAllocated == {0}

\* deallocate(ptr) called directly, with an offset that was never allocated
Deallocate(ptr) ==
  /\ deallocate(ptr)
  /\ lastOp' = [op |-> "deallocate", err |-> deallocateReport(ptr)]
  /\ UNCHANGED <<poolVars, kernelVars, auxVars, engineVars, heap_ptr, memPages,
                 config, handles>>

\* reset()
reset ==
  /\ heap_ptr' = reset_heap
  /\ allocations' = {}
  /\ freeList' = <<>>
  /\ metrics' = updateMetrics(metrics, "reset", 0)
  /\ handles' = [h \in DOMAIN handles |-> [handles[h] EXCEPT !.live = FALSE]]
  /\ UNCHANGED <<memPages, config>>

Reset ==
  /\ reset
  /\ lastOp' = [op |-> "reset", err |-> "none"]
  /\ UNCHANGED <<poolVars, kernelVars, auxVars, engineVars>>

ArenaNext ==
  \/ \E r \in Requests : AllocateReuse(r[1], r[2])
  \/ \E r \in Requests : AllocateBump(r[1], r[2])
  \/ \E r \in Requests : AllocateFail(r[1], r[2])
  \/ \E h \in 1..MaxAllocs : Dispose(h)
  \/ \E ptr \in NeverAllocated : Deallocate(ptr)
  \/ Reset

\* initial state of both subsystems
InitPool ==
  /\ workers = <<>>
  /\ initialized = FALSE
  /\ taskIdCounter = 0
  /\ taskQueue = <<>>
  /\ pendingTasks = [w \in WorkerIds |-> {}]
  /\ busy = [w \in WorkerIds |-> FALSE]
  /\ taskCount = [w \in WorkerIds |-> 0]
  /\ activeWorkers = 0
  /\ queuedTasks = 0
  /\ totalTasksCompleted = 0
  /\ averageTaskTimeMs = <<0, 1>>
  /\ future = <<>>
  /\ resettled = FALSE
  /\ initCalls = <<>>
  /\ unknownWarnings = 0
  /\ burst = 0
  /\ burstQueued = 0
  /\ wstate = [w \in WorkerIds |-> "unspawned"]
  /\ wasm = [w \in WorkerIds |-> FALSE]
  /\ initRunning = [w \in WorkerIds |-> 0]
  /\ inbox = [w \in WorkerIds |-> <<>>]
  /\ outbox = [w \in WorkerIds |-> <<>>]
  /\ errorEvents = 0
  /\ failures = 0

\* no vector or matrix has been made
InitObjects == objects = <<>>

\* no kernel has run: no matrix is laid out in the memory
InitKernel == linear = <<>> /\ mats = <<>>

\* no memoizedComputation has been made
InitMemo == maxSize = 0 /\ cache = {} /\ keys = <<>> /\ recency = <<>>

\* the worker script has been loaded: `let wasm = null`
InitPrivate ==
  /\ privateWasm = "null"
  /\ privateHeapPtr = RESERVED_BYTES
  /\ privateRegions = <<>>
  /\ posted = [type |-> "none", payload |-> ""]

\* a new WasmSignalEngine: _state = signal('uninitialized')
InitLoad ==
  /\ state = "uninitialized"
  /\ error = "null"
  /\ engineWasm = "null"
  /\ loads = 0
  /\ inits = <<>>

\* the engine after one init() that resolved
InitLoaded ==
  /\ state = "ready"
  /\ error = "null"
  /\ engineWasm = "instance"
  /\ loads = 0
  /\ inits = <<"resolved">>

InitAux == InitMemo /\ InitPrivate /\ InitLoad

\* the stand-alone modules next to an engine that is ready
InitAuxReady == InitMemo /\ InitPrivate /\ InitLoaded

InitArenaSpec ==
  /\ InitArena
  /\ InitPool
  /\ InitObjects
  /\ InitKernel
  /\ InitAux

SpecArena == InitArenaSpec /\ [][ArenaNext]_vars

\* ------------------------------------------------------------------------
\* memory-manager.ts: validatePointer and getView, on buffers of the sizes
\* the memory can have
\* ------------------------------------------------------------------------

\* validatePointer(ptr, size): "ok" or the code of the WasmError thrown
validatePointer(ptr, size) ==
  IF ptr < 0 \/ ptr + size > byteLength THEN "INVALID_POINTER" ELSE "ok"

\* the offsets getView is called with: below 0, inside the reserved first
\* page, at its end, and around the end of the buffer
ViewOffsets ==
  {-8, 0, 8, RESERVED_BYTES - 8, RESERVED_BYTES, byteLength - 8, byteLength}

ViewLengths == {0, 1, MaxSmallLen, BigLen}

\* getView(Constructor, ptr, length): validatePointer, then the typed array
\* constructor, which throws a RangeError for a misaligned offset
GetView(kind, ptr, length) ==
  LET size == length * BytesPerElement(kind)
  IN /\ lastOp' = [op |-> "getView", ptr |-> ptr, size |-> size,
                   err |-> IF validatePointer(ptr, size) # "ok"
                           THEN validatePointer(ptr, size)
                           ELSE IF ptr % BytesPerElement(kind) # 0
                                THEN "RangeError"
                                ELSE "ok"]
     /\ UNCHANGED <<memVars, poolVars, kernelVars, auxVars, engineVars>>

ValidateNext ==
  \E kind \in ElementKinds, ptr \in ViewOffsets, length \in ViewLengths :
    GetView(kind, ptr, length)

\* an initialized manager whose buffer has its initial size, has grown by
\* one page, or has grown to the declared maximum
InitValidateGrown ==
  /\ heap_ptr = RESERVED_BYTES
  /\ memPages \in {WatInitialPages, WatInitialPages + 1, WatMaxPages}
  /\ config = DefaultConfig
  /\ allocations = {}
  /\ freeList = <<>>
  /\ metrics = ZeroMetrics
  /\ handles = <<>>
  /\ lastOp = [op |-> "initialize", err |-> "none"]
  /\ InitPool
  /\ InitObjects
  /\ InitKernel
  /\ InitAux

SpecValidate == InitValidateGrown /\ [][ValidateNext]_vars

\* ------------------------------------------------------------------------
\* computation.wat: mat_transpose, and engine.matrixTranspose which gives
\* it a fresh result buffer
\* ------------------------------------------------------------------------

\* the f64 values a cell holds; the kernel copies them bit for bit
CellValues == {0, 1}

Dims == 1..MaxDim

\* byte address of cell k of the memory
CellAt(k) == 8 * k

\* mutant of TransposeStore: the destination row stride is cols
TransposeStoreColsStride(mem, a_ptr, b_ptr, rows, cols, i, j) ==
  LET a_offset == (i * cols + j) * 8
      b_offset == (j * cols + i) * 8
  IN IF b_ptr + b_offset \in DOMAIN mem
     THEN [mem EXCEPT ![b_ptr + b_offset] = mem[a_ptr + a_offset]]
     ELSE mem

\* the two i32.shl ... 3 offsets of the loop body, and the f64.store
TransposeStore(mem, a_ptr, b_ptr, rows, cols, i, j) ==
  LET a_offset == (i * cols + j) * 8
      b_offset == (j * rows + i) * 8
  IN [mem EXCEPT ![b_ptr + b_offset] = mem[a_ptr + a_offset]]

\* $loop_i / $loop_j from (i, j) on; the sums stay far below 2^31
RECURSIVE TransposeFrom(_, _, _, _, _, _, _)
TransposeFrom(mem, a_ptr, b_ptr, rows, cols, i, j) ==
  IF i >= rows THEN mem
  ELSE IF j >= cols
       THEN TransposeFrom(mem, a_ptr, b_ptr, rows, cols, i + 1, 0)
       ELSE TransposeFrom(
              TransposeStore(mem, a_ptr, b_ptr, rows, cols, i, j),
              a_ptr, b_ptr, rows, cols, i, j + 1)

mat_transpose(mem, a_ptr, b_ptr, rows, cols) ==
  TransposeFrom(mem, a_ptr, b_ptr, rows, cols, 0, 0)

\* engine.matrixTranspose(matrix) of the matrix made last: the result is a
\* new cols x rows matrix placed at the heap cursor, behind the others
MatrixTranspose ==
  /\ Len(mats) <= MaxTransposes
  /\ LET matrix == mats[Len(mats)]
         result == [ptr |-> matrix.ptr + 8 * matrix.rows * matrix.cols,
                    rows |-> matrix.cols, cols |-> matrix.rows]
     IN /\ linear' = mat_transpose(linear, matrix.ptr, result.ptr,
                                   matrix.rows, matrix.cols)
        /\ mats' = Append(mats, result)
  /\ lastOp' = [op |-> "matrixTranspose", err |-> "none"]
  /\ UNCHANGED <<memVars, poolVars, engineVars, auxVars>>

TransposeNext == MatrixTranspose

\* one rows x cols matrix with any cell values lies at the start of the
\* memory; the cells behind it are zero, as in new wasm memory
InitTransposeSpec ==
  /\ InitArena
  /\ config = DefaultConfig
  /\ InitPool
  /\ InitObjects
  /\ InitAuxReady
  /\ \E rows \in Dims, cols \in Dims :
       /\ mats = <<[ptr |-> CellAt(0), rows |-> rows, cols |-> cols]>>
       /\ \E data \in [0..(rows * cols - 1) -> CellValues] :
            linear = [a \in {CellAt(k) :
                               k \in 0..((MaxTransposes + 1) * rows * cols - 1)}
                        |-> IF a < 8 * rows * cols
                            THEN data[a \div 8]
                            ELSE 0]

SpecTranspose == InitTransposeSpec /\ [][TransposeNext]_vars

\* ------------------------------------------------------------------------
\* reactive-primitives.ts: memoizedComputation
\* ------------------------------------------------------------------------

\* the values keyFn() returns; JSON.stringify keeps them apart
MemoKeys == 1..MaxKeys

\* s without its occurrences of k
RECURSIVE Without(_, _)
Without(s, k) ==
  IF s = <<>> THEN <<>>
  ELSE IF Head(s) = k THEN Without(Tail(s), k)
       ELSE <<Head(s)>> \o Without(Tail(s), k)

\* the computed re-evaluates with keyFn() = k and the key is in the cache
MemoHit(k) ==
  /\ k \in cache
  /\ recency' = Append(Without(recency, k), k)
  /\ UNCHANGED <<maxSize, cache, keys>>
  /\ lastOp' = [op |-> "memo", key |-> k, err |-> "hit"]
  /\ UNCHANGED <<memVars, poolVars, engineVars, kernelVars, privateVars,
                    loadVars>>

\* the computed re-evaluates with keyFn() = k and the key is not cached:
\* keys.shift() of an empty array gives undefined and deletes nothing
MemoMiss(k) ==
  LET evict == Len(keys) >= maxSize /\ keys # <<>>
  IN /\ k \notin cache
     /\ cache' = (IF evict THEN cache \ {Head(keys)} ELSE cache) \cup {k}
     /\ keys' = Append(IF evict THEN Tail(keys) ELSE keys, k)
     /\ recency' = Append(Without(recency, k), k)
     /\ UNCHANGED maxSize
     /\ lastOp' = [op |-> "memo", key |-> k, err |-> "miss"]
     /\ UNCHANGED <<memVars, poolVars, engineVars, kernelVars, privateVars,
                    loadVars>>

MemoNext ==
  \/ \E k \in MemoKeys : MemoHit(k)
  \/ \E k \in MemoKeys : MemoMiss(k)

\* memoizedComputation(keyFn, computeFn, maxSize) has been called
InitMemoSpec ==
  /\ InitArena
  /\ config = DefaultConfig
  /\ InitPool
  /\ InitObjects
  /\ InitKernel
  /\ maxSize \in 0..MaxCacheSize
  /\ cache = {}
  /\ keys = <<>>
  /\ recency = <<>>
  /\ InitPrivate
  /\ InitLoad

SpecMemo == InitMemoSpec /\ [][MemoNext]_vars

\* ------------------------------------------------------------------------
\* computation.worker.ts: the message handlers of one worker and the heap
\* cursor of its own instance of computation.wat
\* ------------------------------------------------------------------------

\* wasm.memory.buffer.byteLength in the worker: the worker never calls
\* memory.grow, the buffer keeps its initial 256 pages
privateByteLength == WatInitialPages * BYTES_PER_PAGE

\* inputArray.length of the payloads: empty, small, and one that fills the
\* memory behind the reserved page
TransferLengths == {0, 1, MaxSmallLen, BigLen}

\* the messages the worker posts: a result, or an error whose payload is
\* the message of the error the listener caught
Result == [type |-> "result", payload |-> ""]

Error(message) == [type |-> "error", payload |-> message]

\* 'init': handleInit makes a new instance, whose $heap_ptr is 65536
HandleInit ==
  /\ privateWasm' = "instance"
  /\ privateHeapPtr' = RESERVED_BYTES
  /\ privateRegions' = <<>>
  /\ posted' = Result
  /\ UNCHANGED <<arenaVars, poolVars, engineVars, kernelVars, memoVars,
                loadVars>>

\* 'init': fetch or instantiate rejects, the listener posts 'error'
HandleInitFail ==
  /\ posted' = Error("Failed to fetch")
  /\ UNCHANGED <<privateWasm, privateHeapPtr, privateRegions>>
  /\ UNCHANGED <<arenaVars, poolVars, engineVars, kernelVars, memoVars,
                loadVars>>

\* 'compute' before 'init' or after 'dispose': 'WASM not initialized'
HandleComputeNoWasm ==
  /\ privateWasm = "null"
  /\ posted' = Error("WASM not initialized in worker")
  /\ UNCHANGED <<privateWasm, privateHeapPtr, privateRegions>>
  /\ UNCHANGED <<arenaVars, poolVars, engineVars, kernelVars, memoVars,
                loadVars>>

\* 'compute' without transferBuffers: the kernel runs on the args as given
HandleComputePlain ==
  /\ privateWasm = "instance"
  /\ posted' = Result
  /\ UNCHANGED <<privateWasm, privateHeapPtr, privateRegions>>
  /\ UNCHANGED <<arenaVars, poolVars, engineVars, kernelVars, memoVars,
                loadVars>>

\* 'compute' with transferBuffers: wasm.allocate(length * 8) moves the
\* cursor, then new Float64Array(buffer, ptr, length) throws a RangeError
\* when the region does not lie in the buffer; nothing releases the region
HandleComputeTransfer(length) ==
  LET ptr == privateHeapPtr
      inBuffer == ptr + length * 8 <= privateByteLength
  IN /\ privateWasm = "instance"
     /\ Len(privateRegions) < MaxTransfers
     /\ privateHeapPtr' = WatHeapAfterAllocate(privateHeapPtr, length * 8)
     /\ privateRegions' = Append(privateRegions,
                            [ptr |-> ptr, size |-> length * 8,
                             copied |-> inBuffer])
     /\ posted' = IF inBuffer THEN Result ELSE Error("RangeError")
     /\ UNCHANGED privateWasm
     /\ UNCHANGED <<arenaVars, poolVars, engineVars, kernelVars, memoVars,
                   loadVars>>

\* 'dispose': reset_heap() and wasm = null
HandleDispose ==
  /\ privateHeapPtr' = IF privateWasm = "instance" THEN RESERVED_BYTES
                       ELSE privateHeapPtr
  /\ privateRegions' = <<>>
  /\ privateWasm' = "null"
  /\ posted' = Result
  /\ UNCHANGED <<arenaVars, poolVars, engineVars, kernelVars, memoVars,
                loadVars>>

PrivateNext ==
  \/ HandleInit
  \/ HandleInitFail
  \/ HandleComputeNoWasm
  \/ HandleComputePlain
  \/ \E length \in TransferLengths : HandleComputeTransfer(length)
  \/ HandleDispose

InitPrivateSpec ==
  /\ InitArena
  /\ config = DefaultConfig
  /\ InitPool
  /\ InitObjects
  /\ InitKernel
  /\ InitAux

SpecPrivate == InitPrivateSpec /\ [][PrivateNext]_vars

\* ------------------------------------------------------------------------
\* wasm-signal-engine.ts: init() and the load it awaits
\* ------------------------------------------------------------------------

\* memoryManager.initialize(this.wasm) on the new instance
initialize ==
  /\ heap_ptr' = RESERVED_BYTES
  /\ memPages' = WatInitialPages
  /\ config' = DefaultConfig
  /\ allocations' = {}
  /\ freeList' = <<>>
  /\ metrics' = ZeroMetrics
  /\ handles' = <<>>

\* init() on a ready engine returns at once
InitWhenReady ==
  /\ Len(inits) < MaxInits
  /\ state = "ready"
  /\ inits' = Append(inits, "resolved")
  /\ lastOp' = [op |-> "init", err |-> "none"]
  /\ UNCHANGED <<state, error, engineWasm, loads>>
  /\ UNCHANGED <<memVars, poolVars, engineVars, kernelVars, memoVars,
                 privateVars>>

\* mutant of InitWhenLoading: init() has no test for 'loading'
InitWhenLoadingStarts ==
  /\ Len(inits) < MaxInits
  /\ state = "loading"
  /\ state' = "loading"
  /\ error' = "null"
  /\ loads' = loads + 1
  /\ inits' = Append(inits, "pending")
  /\ lastOp' = [op |-> "init", err |-> "none"]
  /\ UNCHANGED engineWasm
  /\ UNCHANGED <<memVars, poolVars, engineVars, kernelVars, memoVars,
                 privateVars>>

\* init() while a load is in flight throws 'Already loading'
InitWhenLoading ==
  /\ Len(inits) < MaxInits
  /\ state = "loading"
  /\ inits' = Append(inits, "INIT_FAILED")
  /\ lastOp' = [op |-> "init", err |-> "INIT_FAILED"]
  /\ UNCHANGED <<state, error, engineWasm, loads>>
  /\ UNCHANGED <<memVars, poolVars, engineVars, kernelVars, memoVars,
                 privateVars>>

\* init() on a new engine or after a failed load: the load starts and the
\* call awaits it
InitStartsLoad ==
  /\ Len(inits) < MaxInits
  /\ state \in {"uninitialized", "error"}
  /\ state' = "loading"
  /\ error' = "null"
  /\ loads' = loads + 1
  /\ inits' = Append(inits, "pending")
  /\ lastOp' = [op |-> "init", err |-> "none"]
  /\ UNCHANGED engineWasm
  /\ UNCHANGED <<memVars, poolVars, engineVars, kernelVars, memoVars,
                 privateVars>>

\* the load awaited by call c succeeds: the try block runs to its end
LoadSucceeds(c) ==
  /\ c \in DOMAIN inits
  /\ inits[c] = "pending"
  /\ engineWasm' = "instance"
  /\ initialize
  /\ state' = "ready"
  /\ loads' = loads - 1
  /\ inits' = [inits EXCEPT ![c] = "resolved"]
  /\ lastOp' = [op |-> "load", err |-> "none"]
  /\ UNCHANGED error
  /\ UNCHANGED <<poolVars, engineVars, kernelVars, memoVars, privateVars>>

\* the load awaited by call c fails (fetch rejects, response not ok,
\* instantiate rejects): the catch block
LoadFails(c) ==
  /\ c \in DOMAIN inits
  /\ inits[c] = "pending"
  /\ error' = "INIT_FAILED"
  /\ state' = "error"
  /\ loads' = loads - 1
  /\ inits' = [inits EXCEPT ![c] = "INIT_FAILED after load"]
  /\ lastOp' = [op |-> "load", err |-> "INIT_FAILED"]
  /\ UNCHANGED engineWasm
  /\ UNCHANGED <<memVars, poolVars, engineVars, kernelVars, memoVars,
                 privateVars>>

\* engine.exports, that is getWasm()
GetWasm ==
  /\ lastOp' = [op |-> "exports",
                err |-> IF state # "ready" \/ engineWasm = "null"
                        THEN "INIT_FAILED" ELSE "none"]
  /\ UNCHANGED <<memVars, poolVars, engineVars, kernelVars, auxVars>>

LoadNext ==
  \/ InitWhenReady
  \/ InitWhenLoading
  \/ InitStartsLoad
  \/ \E c \in 1..MaxInits : LoadSucceeds(c)
  \/ \E c \in 1..MaxInits : LoadFails(c)
  \/ GetWasm

InitLoadSpec ==
  /\ InitArena
  /\ config = DefaultConfig
  /\ InitPool
  /\ InitObjects
  /\ InitKernel
  /\ InitAux

SpecLoad == InitLoadSpec /\ [][LoadNext]_vars

\* ------------------------------------------------------------------------
\* wasm-signal-engine.ts: WasmVector, WasmMatrix and the engine calls that
\* take them.  Object o wraps handle o of the arena.
\* ------------------------------------------------------------------------

\* createVectorSignal(size)
VectorSizes == {1, BigLen}

\* createMatrixSignal(rows, cols)
MatrixShapes == {<<1, MaxSmallLen>>, <<MaxSmallLen, MaxSmallLen>>}

ObjectIds == 1..Len(objects)

Vectors == {o \in ObjectIds : objects[o].kind = "vector"}

Matrices == {o \in ObjectIds : objects[o].kind = "matrix"}

\* the methods of WasmVector / WasmMatrix that take no other object, and
\* engine.mean(vector)
OpsOf(kind) ==
  IF kind = "vector"
  THEN {"set", "setAt", "getAt", "fill", "normalize", "magnitude", "scale",
        "mean"}
  ELSE {"set", "setAt", "getAt", "fill", "setIdentity", "norm"}

\* the methods whose first statement is this.ensureNotDisposed()
CallsEnsureNotDisposed(op) ==
  op \in {"set", "setAt", "fill", "normalize", "scale", "add", "setIdentity"}

ensureNotDisposed(o) == IF objects[o].disposed THEN "DISPOSED" ELSE "none"

\* allocated.view was made on a buffer that memory.grow has since detached
Detached(o) == handles[o].pages # memPages

\* outcome of object o's method op (or of engine.mean)
SelfOutcome(op, o) ==
  IF CallsEnsureNotDisposed(op) /\ ensureNotDisposed(o) # "none"
  THEN ensureNotDisposed(o)
  ELSE IF op = "setIdentity" /\ objects[o].rows # objects[o].cols
       THEN "Error"
       ELSE IF op \in {"set", "fill", "setIdentity"} /\ Detached(o)
            THEN "TypeError"
            ELSE "none"

\* outcome of a.add(b) and of engine.dotProduct(a, b)
PairOutcome(op, a, b) ==
  IF CallsEnsureNotDisposed(op) /\ ensureNotDisposed(a) # "none"
  THEN ensureNotDisposed(a)
  ELSE IF objects[a].cols # objects[b].cols THEN "Error" ELSE "none"

\* the calls that allocate a new object, with the shape of the object
Calls ==
  {[op |-> "createVectorSignal", rows |-> 1, cols |-> n, a |-> 0, b |-> 0] :
     n \in VectorSizes}
  \cup
  {[op |-> "createMatrixSignal", rows |-> d[1], cols |-> d[2],
    a |-> 0, b |-> 0] : d \in MatrixShapes}
  \cup
  {[op |-> "matrixMultiply", rows |-> objects[p[1]].rows,
    cols |-> objects[p[2]].cols, a |-> p[1], b |-> p[2]] :
     p \in {q \in Matrices \X Matrices :
              objects[q[1]].cols = objects[q[2]].rows}}

NewObject(c) ==
  [kind |-> IF c.op = "createVectorSignal" THEN "vector" ELSE "matrix",
   rows |-> c.rows, cols |-> c.cols, disposed |-> FALSE]

OperandDisposed(c) ==
  c.op = "matrixMultiply" /\ (objects[c.a].disposed \/ objects[c.b].disposed)

\* createVectorSignal / createMatrixSignal / matrixMultiply: the block of
\* the new object is taken from the free list
CreateReuse(c) ==
  /\ allocateReuse("f64", c.rows * c.cols)
  /\ objects' = Append(objects, NewObject(c))
  /\ lastOp' = [op |-> c.op, disposedOperand |-> OperandDisposed(c),
                err |-> "none"]
  /\ UNCHANGED <<poolVars, kernelVars, auxVars, kernelVars, auxVars>>

\* the same calls, the block comes from the heap cursor
CreateBump(c) ==
  /\ allocateBump("f64", c.rows * c.cols)
  /\ objects' = Append(objects, NewObject(c))
  /\ lastOp' = [op |-> c.op, disposedOperand |-> OperandDisposed(c),
                err |-> "none"]
  /\ UNCHANGED <<poolVars, kernelVars, auxVars, kernelVars, auxVars>>

\* the same calls, allocateFloat64 throws
CreateFail(c) ==
  /\ allocateFail("f64", c.rows * c.cols)
  /\ lastOp' = [op |-> c.op, disposedOperand |-> OperandDisposed(c),
                err |-> ensureCapacity(c.rows * c.cols
                                         * BytesPerElement("f64"))]
  /\ UNCHANGED <<poolVars, kernelVars, auxVars, objects>>

\* mutant of MultiplyMismatch: the dimensions are compared after the result
\* matrix was allocated
MultiplyMismatchLate(a, b) ==
  /\ a \in Matrices /\ b \in Matrices
  /\ objects[a].cols # objects[b].rows
  /\ \/ allocateReuse("f64", objects[a].rows * objects[b].cols)
     \/ allocateBump("f64", objects[a].rows * objects[b].cols)
  /\ lastOp' = [op |-> "matrixMultiply",
                disposedOperand |->
                  objects[a].disposed \/ objects[b].disposed,
                err |-> "Error"]
  /\ UNCHANGED <<poolVars, kernelVars, auxVars, objects>>

\* matrixMultiply(a, b) with a.cols !== b.rows
MultiplyMismatch(a, b) ==
  /\ a \in Matrices /\ b \in Matrices
  /\ objects[a].cols # objects[b].rows
  /\ lastOp' = [op |-> "matrixMultiply",
                disposedOperand |->
                  objects[a].disposed \/ objects[b].disposed,
                err |-> "Error"]
  /\ UNCHANGED <<memVars, poolVars, kernelVars, auxVars, objects>>

\* what is recorded of a call of op: whether it is one of the mutators,
\* the methods that call ensureNotDisposed, or a read
OpClass(op) == IF CallsEnsureNotDisposed(op) THEN "mutator" ELSE "read"

\* a method of object o, or engine.mean(o)
ObjectOp(op, o) ==
  /\ o \in ObjectIds
  /\ op \in OpsOf(objects[o].kind)
  /\ lastOp' = [op |-> OpClass(op), disposedOperand |-> objects[o].disposed,
                err |-> SelfOutcome(op, o)]
  /\ UNCHANGED <<memVars, poolVars, kernelVars, auxVars, objects>>

\* a.add(b) and engine.dotProduct(a, b)
PairOp(op, a, b) ==
  /\ a \in Vectors /\ b \in Vectors
  /\ lastOp' = [op |-> op,
                disposedOperand |->
                  objects[a].disposed \/ objects[b].disposed,
                err |-> PairOutcome(op, a, b)]
  /\ UNCHANGED <<memVars, poolVars, kernelVars, auxVars, objects>>

\* o.dispose() of an object that is not disposed
DisposeObject(o) ==
  /\ o \in ObjectIds
  /\ ~objects[o].disposed
  /\ deallocate(handles[o].ptr)
  /\ handles' = [handles EXCEPT ![o].live = FALSE]
  /\ objects' = [objects EXCEPT ![o].disposed = TRUE]
  /\ lastOp' = [op |-> "dispose", disposedOperand |-> FALSE, err |-> "none"]
  /\ UNCHANGED <<poolVars, kernelVars, auxVars, heap_ptr, memPages, config>>

\* mutant of DisposeObjectAgain: dispose() has no _disposed test and calls
\* this.allocated.dispose() every time
DisposeObjectAgainDeallocates(o) ==
  /\ o \in ObjectIds
  /\ objects[o].disposed
  /\ deallocate(handles[o].ptr)
  /\ handles' = [handles EXCEPT ![o].live = FALSE]
  /\ lastOp' = [op |-> "dispose", disposedOperand |-> TRUE, err |-> "none"]
  /\ UNCHANGED <<poolVars, kernelVars, auxVars, heap_ptr, memPages, config,
                 objects>>

\* o.dispose() of a disposed object
DisposeObjectAgain(o) ==
  /\ o \in ObjectIds
  /\ objects[o].disposed
  /\ lastOp' = [op |-> "dispose", disposedOperand |-> TRUE, err |-> "none"]
  /\ UNCHANGED <<memVars, poolVars, kernelVars, auxVars, objects>>

\* engine.reset()
EngineReset ==
  /\ reset
  /\ lastOp' = [op |-> "reset", disposedOperand |-> FALSE, err |-> "none"]
  /\ UNCHANGED <<poolVars, kernelVars, auxVars, objects>>

EngineNext ==
  \/ \E c \in Calls : CreateReuse(c)
  \/ \E c \in Calls : CreateBump(c)
  \/ \E c \in Calls : CreateFail(c)
  \/ \E a, b \in 1..MaxAllocs : MultiplyMismatch(a, b)
  \/ \E o \in 1..MaxAllocs :
       \E op \in OpsOf("vector") \cup OpsOf("matrix") : ObjectOp(op, o)
  \/ \E a, b \in 1..MaxAllocs :
       \E op \in {"add", "dotProduct"} : PairOp(op, a, b)
  \/ \E o \in 1..MaxAllocs : DisposeObject(o)
  \/ \E o \in 1..MaxAllocs : DisposeObjectAgain(o)
  \/ EngineReset

\* the engine after init(): memoryManager.initialize(this.wasm)
InitEngineSpec ==
  /\ InitArena
  /\ config = DefaultConfig
  /\ InitPool
  /\ InitObjects
  /\ InitKernel
  /\ InitAuxReady

SpecEngine == InitEngineSpec /\ [][EngineNext]_vars

\* ------------------------------------------------------------------------
\* worker-pool.service.ts
\* ------------------------------------------------------------------------
\* mutant of BestWorkerFrom: `<=` keeps the last of the least loaded workers
RECURSIVE BestWorkerFromLast(_, _, _, _, _)
BestWorkerFromLast(ws, pend, i, best, bestCount) ==
  IF i > Len(ws) THEN <<best, bestCount>>
  ELSE IF best = 0 \/ Cardinality(pend[ws[i]]) <= bestCount
       THEN BestWorkerFromLast(ws, pend, i + 1, ws[i],
                               Cardinality(pend[ws[i]]))
       ELSE BestWorkerFromLast(ws, pend, i + 1, best, bestCount)

RECURSIVE BestWorkerFrom(_, _, _, _, _)
BestWorkerFrom(ws, pend, i, best, bestCount) ==
  IF i > Len(ws) THEN <<best, bestCount>>
  ELSE IF best = 0 \/ Cardinality(pend[ws[i]]) < bestCount
       THEN BestWorkerFrom(ws, pend, i + 1, ws[i], Cardinality(pend[ws[i]]))
       ELSE BestWorkerFrom(ws, pend, i + 1, best, bestCount)

LeastLoaded(ws, pend) ==
  CHOOSE i \in 1..Len(ws) :
    /\ \A j \in 1..Len(ws) :
         Cardinality(pend[ws[j]]) >= Cardinality(pend[ws[i]])
    /\ \A j \in 1..(i - 1) :
         Cardinality(pend[ws[j]]) > Cardinality(pend[ws[i]])

\* mutant of getAvailableWorker: `bestCount <= 10`
getAvailableWorkerInclusive(ws, pend) ==
  IF ws # <<>> /\ Cardinality(pend[ws[LeastLoaded(ws, pend)]]) <= SaturationCap
  THEN ws[LeastLoaded(ws, pend)] ELSE 0

\* mutant of getAvailableWorker: the saturation check is left out
getAvailableWorkerNoCap(ws, pend) ==
  IF ws # <<>> THEN ws[LeastLoaded(ws, pend)] ELSE 0

\* the worker getAvailableWorker returns, 0 for null
getAvailableWorker(ws, pend) ==
  LET r == BestWorkerFrom(ws, pend, 1, 0, 0)
  IN IF r[1] # 0 /\ r[2] < SaturationCap THEN r[1] ELSE 0

\* mutant of ActiveCount: every worker of the pool is counted
ActiveCountAll(ws, b) == Len(ws)

\* updateActiveWorkerCount: this.workers.filter((w) => w.busy).length
ActiveCount(ws, b) == Cardinality({i \in 1..Len(ws) : b[ws[i]]})

\* sendToWorker on the part of the state it changes
\*   st = [q: taskQueue, p: pendingTasks, b: busy, ib: inbox, n: shifted]
sendToWorker(st, w, msg) ==
  [st EXCEPT !.p[w] = @ \cup {msg.id},
             !.b[w] = TRUE,
             !.ib[w] = IF wstate[w] = "running" THEN Append(@, msg) ELSE @]

\* mutant of processQueue: this.taskQueue.pop() in place of shift()
RECURSIVE processQueuePop(_, _)
processQueuePop(st, ws) ==
  IF st.q = <<>> THEN st
  ELSE LET w == getAvailableWorker(ws, st.p)
       IN IF w = 0 THEN st
          ELSE processQueuePop(
                 sendToWorker([st EXCEPT !.q = SubSeq(@, 1, Len(@) - 1),
                                         !.n = @ + 1], w,
                              [type |-> "compute", id |-> st.q[Len(st.q)]]),
                 ws)

RECURSIVE processQueue(_, _)
processQueue(st, ws) ==
  IF st.q = <<>> THEN st
  ELSE LET w == getAvailableWorker(ws, st.p)
       IN IF w = 0 THEN st
          ELSE processQueue(
                 sendToWorker([st EXCEPT !.q = Tail(@), !.n = @ + 1], w,
                              [type |-> "compute", id |-> Head(st.q)]),
                 ws)

RECURSIVE GCD(_, _)
GCD(a, b) == IF b = 0 THEN a ELSE GCD(b, a % b)

Abs(x) == IF x < 0 THEN -x ELSE x

Reduce(num, den) ==
  LET g == GCD(Abs(num), den)
  IN IF g = 0 THEN <<0, 1>> ELSE <<num \div g, den \div g>>

\* updateStats: newAvg = currentAvg + (taskTimeMs - currentAvg) / total
NewAverage(avg, taskTimeMs, total) ==
  Reduce(avg[1] * total + taskTimeMs * avg[2] - avg[1], avg[2] * total)

Rejected == {"error", "worker_error", "terminated"}

\* task.resolve / task.reject on the promise of request id
Settle(fut, id, outcome) ==
  IF fut[id] = "pending" THEN [fut EXCEPT ![id] = outcome] ELSE fut

\* Promise.all(initPromises) of every waiting init() call, and its
\* continuation
SettleInitCalls(calls, fut) ==
  [c \in DOMAIN calls |->
     IF calls[c].state # "waiting" THEN calls[c]
     ELSE IF \E t \in calls[c].tasks : fut[t] \in Rejected
          THEN [calls[c] EXCEPT !.state = "rejected"]
          ELSE IF \A t \in calls[c].tasks : fut[t] = "resolved"
               THEN [calls[c] EXCEPT !.state = "resolved"]
               ELSE calls[c]]

InitCompletes(calls, fut) ==
  \E c \in DOMAIN calls :
     /\ calls[c].state = "waiting"
     /\ SettleInitCalls(calls, fut)[c].state = "resolved"

Spawned == Cardinality({w \in WorkerIds : wstate[w] # "unspawned"})

\* bound on the ids the model hands out: MaxTasks while a single worker
\* has been spawned, MaxTasksMulti afterwards
TaskLimit(spawned) == IF spawned <= 1 THEN MaxTasks ELSE MaxTasksMulti

\* init(workerCount) on a pool that is not initialized
Init(workerCount) ==
  LET new == [i \in 1..workerCount |-> Spawned + i]
      ids == [i \in 1..workerCount |-> taskIdCounter + i]
  IN /\ ~initialized
     /\ Spawned + workerCount <= MaxSpawned
     /\ taskIdCounter + workerCount <= TaskLimit(Spawned + workerCount)
     /\ workers' = workers \o new
     /\ wstate' = [w \in WorkerIds |->
                     IF \E i \in 1..workerCount : new[i] = w
                     THEN "running" ELSE wstate[w]]
     /\ pendingTasks' = [w \in WorkerIds |->
                     IF \E i \in 1..workerCount : new[i] = w
                     THEN {ids[CHOOSE i \in 1..workerCount : new[i] = w]}
                     ELSE pendingTasks[w]]
     /\ busy' = [w \in WorkerIds |->
                     IF \E i \in 1..workerCount : new[i] = w
                     THEN TRUE ELSE busy[w]]
     /\ inbox' = [w \in WorkerIds |->
                     IF \E i \in 1..workerCount : new[i] = w
                     THEN <<[type |-> "init",
                             id |-> ids[CHOOSE i \in 1..workerCount :
                                           new[i] = w]]>>
                     ELSE inbox[w]]
     /\ taskIdCounter' = taskIdCounter + workerCount
     /\ future' = future \o [i \in 1..workerCount |-> "pending"]
     /\ activeWorkers' = ActiveCount(workers', busy')
     /\ initCalls' = Append(initCalls,
                       [tasks |-> {ids[i] : i \in 1..workerCount},
                        state |-> "waiting",
                        \* history: the call before this one had failed
                        rerun |-> (/\ initCalls # <<>>
                                   /\ initCalls[Len(initCalls)].state
                                        = "rejected")])
     /\ burst' = 0
     /\ UNCHANGED <<arenaVars, engineVars, kernelVars, auxVars, initialized,
                    taskQueue, taskCount, queuedTasks, totalTasksCompleted,
                    averageTaskTimeMs, resettled, unknownWarnings, burstQueued,
                    wasm, initRunning, outbox, errorEvents, failures>>

\* init() on an initialized pool: `if (this.initialized) return;`
InitAlready ==
  /\ initialized
  /\ UNCHANGED <<arenaVars, engineVars, kernelVars, auxVars, coordVars,
                 workerVars>>

\* every worker of the pool is idle and nothing is queued
PoolIdle ==
  /\ taskQueue = <<>>
  /\ \A i \in 1..Len(workers) : pendingTasks[workers[i]] = {}

\* compute(operation, args) on an initialized pool
Compute ==
  LET id == taskIdCounter + 1
      w == getAvailableWorker(workers, pendingTasks)
      st == sendToWorker([q |-> taskQueue, p |-> pendingTasks, b |-> busy,
                          ib |-> inbox, n |-> 0], w,
                         [type |-> "compute", id |-> id])
  IN /\ initialized
     /\ taskIdCounter < TaskLimit(Spawned)
     /\ taskIdCounter' = id
     /\ future' = Append(future, "pending")
     /\ IF w # 0
        THEN /\ pendingTasks' = st.p
             /\ busy' = st.b
             /\ inbox' = st.ib
             /\ activeWorkers' = ActiveCount(workers, st.b)
             /\ UNCHANGED <<taskQueue, queuedTasks>>
        ELSE /\ taskQueue' = Append(taskQueue, id)
             /\ queuedTasks' = Len(taskQueue')
             /\ UNCHANGED <<pendingTasks, busy, inbox, activeWorkers>>
     /\ burst' = IF PoolIdle THEN 1 ELSE IF burst > 0 THEN burst + 1 ELSE 0
     /\ burstQueued' = IF burst' = SaturationCap * Len(workers) + 1 /\ w = 0
                       THEN id ELSE burstQueued
     /\ UNCHANGED <<arenaVars, engineVars, kernelVars, auxVars, workers,
                    initialized, taskCount, totalTasksCompleted,
                    averageTaskTimeMs, resettled, initCalls, unknownWarnings,
                    wstate, wasm, initRunning, outbox, errorEvents, failures>>

\* compute() on a pool that is not initialized: throws
ComputeRefused ==
  /\ ~initialized
  /\ UNCHANGED <<arenaVars, engineVars, kernelVars, auxVars, coordVars,
                 workerVars>>

\* mutant of WorkerTerminate: the posted messages survive the termination
WorkerTerminateKeep(gone, ob) == ob

\* pooled.worker.terminate(): the messages the worker has posted and that
\* have not been delivered are discarded with it
WorkerTerminate(gone, ob) ==
  [w \in WorkerIds |-> IF w \in gone THEN <<>> ELSE ob[w]]

\* mutant of KnownTask: the `if (!task)` guard is left out
KnownTaskAlways(pend, id) == TRUE

\* pooled.pendingTasks.get(message.id) finds a task
KnownTask(pend, id) == id \in pend

\* the ids terminate() rejects: the pending tasks of the pool's workers
TerminateRejects(ws, pend) ==
  UNION {pend[ws[i]] : i \in 1..Len(ws)}

\* terminate()
Terminate ==
  LET gone == {workers[i] : i \in 1..Len(workers)}
      rej == TerminateRejects(workers, pendingTasks)
      fut == [id \in DOMAIN future |->
                IF id \in rej /\ future[id] = "pending"
                THEN "terminated" ELSE future[id]]
  IN /\ future' = fut
     /\ resettled' = (resettled \/ \E id \in rej : future[id] # "pending")
     /\ initCalls' = SettleInitCalls(initCalls, fut)
     \* pooled.worker.terminate()
     /\ wstate' = [w \in WorkerIds |->
                     IF w \in gone THEN "terminated" ELSE wstate[w]]
     /\ inbox' = [w \in WorkerIds |-> IF w \in gone THEN <<>> ELSE inbox[w]]
     /\ outbox' = WorkerTerminate(gone, outbox)
     /\ initRunning' = [w \in WorkerIds |->
                          IF w \in gone THEN 0 ELSE initRunning[w]]
     /\ workers' = <<>>
     /\ taskQueue' = <<>>
     /\ initialized' = FALSE
     /\ activeWorkers' = 0
     /\ queuedTasks' = 0
     /\ burst' = 0
     /\ UNCHANGED <<arenaVars, engineVars, kernelVars, auxVars, taskIdCounter,
                    pendingTasks, busy, taskCount, totalTasksCompleted,
                    averageTaskTimeMs, unknownWarnings, burstQueued, wasm,
                    errorEvents, failures>>

\* handleWorkerMessage(pooled, message) for the next message of worker w
HandleWorkerMessage(w) ==
  /\ outbox[w] # <<>>
  /\ LET message == Head(outbox[w])
     IN /\ outbox' = [outbox EXCEPT ![w] = Tail(@)]
        /\ IF ~KnownTask(pendingTasks[w], message.id)
           THEN /\ unknownWarnings' = unknownWarnings + 1
                /\ burst' = 0
                /\ UNCHANGED <<workers, initialized, taskIdCounter, taskQueue,
                               pendingTasks, busy, taskCount, activeWorkers,
                               queuedTasks, totalTasksCompleted,
                               averageTaskTimeMs, future, resettled, initCalls,
                               burstQueued, inbox>>
           ELSE \E elapsed \in ElapsedTimes(message.id) :
                LET p1 == [pendingTasks EXCEPT ![w] = @ \ {message.id}]
                    b1 == [busy EXCEPT ![w] = (p1[w] # {})]
                    total == totalTasksCompleted + 1
                    fut == Settle(future, message.id,
                                  IF message.type = "error"
                                  THEN "error" ELSE "resolved")
                    st == processQueue([q |-> taskQueue, p |-> p1,
                                        b |-> b1, ib |-> inbox, n |-> 0],
                                       workers)
                IN /\ pendingTasks' = st.p
                   /\ busy' = st.b
                   /\ inbox' = st.ib
                   /\ taskQueue' = st.q
                   /\ taskCount' = [taskCount EXCEPT ![w] = @ + 1]
                   /\ totalTasksCompleted' = total
                   /\ averageTaskTimeMs' =
                        NewAverage(averageTaskTimeMs, elapsed, total)
                   /\ activeWorkers' = ActiveCount(workers, st.b)
                   /\ queuedTasks' = IF st.n > 0 THEN Len(st.q)
                                     ELSE queuedTasks
                   /\ future' = fut
                   /\ resettled' =
                        (resettled \/ future[message.id] # "pending")
                   /\ initCalls' = SettleInitCalls(initCalls, fut)
                   /\ initialized' =
                        (initialized \/ InitCompletes(initCalls, fut))
                   /\ burst' = 0
                   /\ UNCHANGED <<workers, taskIdCounter, unknownWarnings,
                                  burstQueued>>
  /\ UNCHANGED <<arenaVars, engineVars, kernelVars, auxVars, wstate, wasm,
                 initRunning, errorEvents, failures>>

\* mutant of ErrorTargets: the error of one worker fails every worker
ErrorTargetsAll(w) == WorkerIds

\* the workers whose pending tasks handleWorkerError(pooled, error) rejects
\* and clears
ErrorTargets(w) == {w}

\* worker.onerror: handleWorkerError(pooled, error)
WorkerErrorEvent(w) ==
  LET hit == UNION {pendingTasks[v] : v \in ErrorTargets(w)}
      fut == [id \in DOMAIN future |->
                IF id \in hit /\ future[id] = "pending"
                THEN "worker_error" ELSE future[id]]
      b1 == [v \in WorkerIds |->
               IF v \in ErrorTargets(w) THEN FALSE ELSE busy[v]]
  IN /\ wstate[w] = "running"
     /\ errorEvents + failures < MaxFaults
     /\ errorEvents' = errorEvents + 1
     /\ future' = fut
     /\ resettled' = (resettled \/ \E id \in hit : future[id] # "pending")
     /\ pendingTasks' = [v \in WorkerIds |->
                           IF v \in ErrorTargets(w) THEN {}
                           ELSE pendingTasks[v]]
     /\ busy' = b1
     /\ activeWorkers' = ActiveCount(workers, b1)
     /\ initCalls' = SettleInitCalls(initCalls, fut)
     /\ burst' = 0
     /\ UNCHANGED <<arenaVars, engineVars, kernelVars, auxVars, workers,
                    initialized, taskIdCounter, taskQueue, taskCount,
                    queuedTasks, totalTasksCompleted, averageTaskTimeMs,
                    unknownWarnings, burstQueued, wstate, wasm, initRunning,
                    inbox, outbox, failures>>

\* ------------------------------------------------------------------------
\* computation.worker.ts
\* ------------------------------------------------------------------------
Post(w, type, id) ==
  outbox' = [outbox EXCEPT ![w] = Append(@, [type |-> type, id |-> id])]

\* the message listener takes the next message; an init starts handleInit,
\* which awaits the fetch, so the listener returns before it is answered
WorkerReceiveInit(w) ==
  /\ wstate[w] = "running"
  /\ inbox[w] # <<>>
  /\ Head(inbox[w]).type = "init"
  /\ inbox' = [inbox EXCEPT ![w] = Tail(@)]
  /\ initRunning' = [initRunning EXCEPT ![w] = Head(inbox[w]).id]
  /\ UNCHANGED <<arenaVars, engineVars, kernelVars, auxVars, coordVars, wstate,
                 wasm, outbox, errorEvents, failures>>

\* handleInit resumes: the module is instantiated and a result is posted
WorkerInitDone(w) ==
  /\ wstate[w] = "running"
  /\ initRunning[w] # 0
  /\ wasm' = [wasm EXCEPT ![w] = TRUE]
  /\ Post(w, "result", initRunning[w])
  /\ initRunning' = [initRunning EXCEPT ![w] = 0]
  /\ UNCHANGED <<arenaVars, engineVars, kernelVars, auxVars, coordVars, wstate,
                 inbox, errorEvents, failures>>

\* handleInit resumes: fetch or instantiate throws, an error is posted
WorkerInitFail(w) ==
  /\ wstate[w] = "running"
  /\ initRunning[w] # 0
  /\ errorEvents + failures < MaxFaults
  /\ failures' = failures + 1
  /\ Post(w, "error", initRunning[w])
  /\ initRunning' = [initRunning EXCEPT ![w] = 0]
  /\ UNCHANGED <<arenaVars, engineVars, kernelVars, auxVars, coordVars, wstate,
                 wasm, inbox, errorEvents>>

\* handleCompute: posts the result of the kernel
WorkerCompute(w) ==
  /\ wstate[w] = "running"
  /\ inbox[w] # <<>>
  /\ Head(inbox[w]).type = "compute"
  /\ wasm[w]
  /\ inbox' = [inbox EXCEPT ![w] = Tail(@)]
  /\ Post(w, "result", Head(inbox[w]).id)
  /\ UNCHANGED <<arenaVars, engineVars, kernelVars, auxVars, coordVars, wstate,
                 wasm, initRunning, errorEvents, failures>>

\* handleCompute throws (wasm not initialized in the worker, unknown
\* operation, or the kernel traps): the listener posts an error
WorkerComputeFail(w) ==
  /\ wstate[w] = "running"
  /\ inbox[w] # <<>>
  /\ Head(inbox[w]).type = "compute"
  /\ \/ ~wasm[w] /\ UNCHANGED failures
     \/ /\ wasm[w]
        /\ errorEvents + failures < MaxFaults
        /\ failures' = failures + 1
  /\ inbox' = [inbox EXCEPT ![w] = Tail(@)]
  /\ Post(w, "error", Head(inbox[w]).id)
  /\ UNCHANGED <<arenaVars, engineVars, kernelVars, auxVars, coordVars, wstate,
                 wasm, initRunning, errorEvents>>

PoolNext ==
  \/ \E n \in 1..MaxSpawned : Init(n)
  \/ InitAlready
  \/ Compute
  \/ ComputeRefused
  \/ Terminate
  \/ \E w \in WorkerIds : HandleWorkerMessage(w)
  \/ \E w \in WorkerIds : WorkerErrorEvent(w)
  \/ \E w \in WorkerIds : WorkerReceiveInit(w)
  \/ \E w \in WorkerIds : WorkerInitDone(w)
  \/ \E w \in WorkerIds : WorkerInitFail(w)
  \/ \E w \in WorkerIds : WorkerCompute(w)
  \/ \E w \in WorkerIds : WorkerComputeFail(w)

InitPoolSpec ==
  /\ InitPool
  /\ InitArena
  /\ InitObjects
  /\ InitKernel
  /\ InitAux
  /\ config = DefaultConfig

SpecPool == InitPoolSpec /\ [][PoolNext]_vars

\* the event loop runs every task that is ready: a worker handles the
\* messages posted to it and finishes its handleInit, and the pool handles
\* the messages its workers post; calls of the pool's methods and error
\* events may or may not come
PoolFairness ==
  \A w \in WorkerIds :
    /\ WF_vars(HandleWorkerMessage(w))
    /\ WF_vars(WorkerReceiveInit(w))
    /\ WF_vars(WorkerInitDone(w) \/ WorkerInitFail(w))
    /\ WF_vars(WorkerCompute(w) \/ WorkerComputeFail(w))

SpecPoolFair == InitPoolSpec /\ [][PoolNext]_vars /\ PoolFairness

\* ------------------------------------------------------------------------
\* Claims about the arena
\* ------------------------------------------------------------------------

\* a handle is live when it was returned by allocate since the last reset
\* and its holder has not disposed it
Live(h) == handles[h].live

Overlap(h1, h2) ==
  /\ handles[h1].size > 0
  /\ handles[h2].size > 0
  /\ handles[h1].ptr < handles[h2].ptr + handles[h2].size
  /\ handles[h2].ptr < handles[h1].ptr + handles[h1].size

\* C1 (as claimed): after any sequence of allocate, dispose and reset, any
\* two live allocations occupy non-overlapping byte ranges.
C1_NoLiveOverlap ==
  \A h1, h2 \in 1..Len(handles) :
    (h1 # h2 /\ Live(h1) /\ Live(h2)) => ~Overlap(h1, h2)

\* ------------------------------------------------------------------------
\* Claims about the worker pool
\* ------------------------------------------------------------------------

\* the coordinator takes the next message of worker w off its port
Delivered(w) ==
  /\ outbox[w] # <<>>
  /\ outbox'[w] = Tail(outbox[w])
  /\ wstate' = wstate

IsPrefix(s, t) == Len(s) <= Len(t) /\ SubSeq(t, 1, Len(s)) = s

InitIds == UNION {initCalls[c].tasks : c \in DOMAIN initCalls}

ComputeIds == DOMAIN future \ InitIds

\* C2 (as claimed): when terminate() is called, every future that is still
\* unsettled, pending on a worker or waiting in the overflow queue, is
\* rejected with PoolTerminated.
C2_TerminateRejectsAll ==
  [][(workers # <<>> /\ workers' = <<>>) =>
       \A id \in DOMAIN future :
         future[id] = "pending" => future'[id] = "terminated"]_vars

\* every worker has answered every message it received and the coordinator
\* has handled every answer
Quiescent ==
  \A w \in WorkerIds :
    inbox[w] = <<>> /\ outbox[w] = <<>> /\ initRunning[w] = 0

\* C3 (as claimed): every request accepted by compute has its future settled
\* exactly once, eventually, provided each worker answers every message:
\* once all messages are answered and handled, no accepted request is left
\* unsettled, and no future is settled twice.
C3_SettledOnceWhenQuiescent ==
  /\ ~resettled
  /\ Quiescent => \A id \in ComputeIds : future[id] # "pending"

\* C4 (as claimed): W+1 requests submitted to W idle workers with no
\* response in between leave exactly one request in the overflow queue.
C4_OneQueuedAfterWPlus1 ==
  (initialized /\ burst = Len(workers) + 1) => Len(taskQueue) = 1

C4_Inv ==
  (initialized /\ burst = SaturationCap * Len(workers) + 1) =>
     /\ taskQueue = <<taskIdCounter>>
     /\ future[taskIdCounter] = "pending"
     /\ \A i \in 1..Len(workers) :
          Cardinality(pendingTasks[workers[i]]) = SaturationCap

C4_Step ==
  \A id \in DOMAIN future :
    (future[id] = "pending" /\ future'[id] \in {"resolved", "error"}) =>
       \E w \in WorkerIds : Delivered(w) /\ Head(outbox[w]).id = id

\* C4 (amended): 10*W+1 requests submitted to W idle workers with no
\* response in between leave exactly one request, the last one, in the
\* overflow queue, every worker holding 10; and a request is resolved or
\* rejected with a worker's answer only by the message carrying its own id.
C4_OneQueuedAfterSaturation == []C4_Inv /\ [][C4_Step]_vars

\* the request queued at the end of a saturating burst was dispatched later
\* and resolved
C4_Witness == burstQueued # 0 /\ future[burstQueued] = "resolved"

\* C5: in every reachable state no worker holds more than 10 pending
\* requests, init and compute requests alike.
C5_BacklogCap ==
  \A w \in WorkerIds : Cardinality(pendingTasks[w]) <= SaturationCap

C5_Witness ==
  \E w \in WorkerIds : Cardinality(pendingTasks[w]) = SaturationCap

\* C6: compute dispatches the request to the first of the workers with the
\* fewest pending requests when that number is below 10, and appends it to
\* the overflow queue when every worker has 10 or more.
C6_Step ==
  (initialized /\ taskIdCounter' = taskIdCounter + 1) =>
    LET id == taskIdCounter + 1
    IN IF \E i \in 1..Len(workers) :
            Cardinality(pendingTasks[workers[i]]) < SaturationCap
       THEN \E i \in 1..Len(workers) :
              /\ \A j \in 1..Len(workers) :
                   Cardinality(pendingTasks[workers[j]]) >=
                     Cardinality(pendingTasks[workers[i]])
              /\ \A j \in 1..(i - 1) :
                   Cardinality(pendingTasks[workers[j]]) >
                     Cardinality(pendingTasks[workers[i]])
              /\ pendingTasks' =
                   [pendingTasks EXCEPT ![workers[i]] = @ \cup {id}]
              /\ inbox' =
                   [inbox EXCEPT ![workers[i]] =
                      Append(@, [type |-> "compute", id |-> id])]
              /\ taskQueue' = taskQueue
       ELSE /\ taskQueue' = Append(taskQueue, id)
            /\ pendingTasks' = pendingTasks
            /\ inbox' = inbox

C6_LeastLoadedOrQueue == [][C6_Step]_vars

\* a request is waiting in the overflow queue behind workers that all hold
\* 10 pending requests
C6_Witness ==
  /\ initialized
  /\ taskQueue # <<>>
  /\ \A i \in 1..Len(workers) :
       Cardinality(pendingTasks[workers[i]]) >= SaturationCap

\* C7: after terminate() no result or error message of a worker of the
\* terminated pool settles a future or changes the pool state.
C7_Step ==
  \A w \in WorkerIds :
    (wstate[w] = "terminated" /\ Delivered(w)) =>
       UNCHANGED <<future, resettled, pendingTasks, busy, taskCount, taskQueue,
                   totalTasksCompleted, averageTaskTimeMs, activeWorkers,
                   queuedTasks, initialized, inbox>>

C8_Step ==
  \A w \in WorkerIds :
    (Delivered(w) /\ Head(outbox[w]).id \notin pendingTasks[w]) =>
       UNCHANGED <<future, resettled, pendingTasks, busy, taskCount, taskQueue,
                   totalTasksCompleted, averageTaskTimeMs, queuedTasks,
                   initialized, initCalls, inbox>>

C8_UnknownIdDropped == [][C8_Step]_vars

\* an unknown id was dropped while a request was waiting in the queue
C8_Witness == unknownWarnings > 0 /\ taskQueue # <<>>

\* C9: a failure on one worker (an error response, or a worker error
\* event) leaves the requests pending on every other worker in place and
\* unsettled, and leaves the pool initialized.
OthersUntouched(w) ==
  /\ initialized' = initialized
  /\ \A v \in WorkerIds \ {w} :
       /\ pendingTasks[v] \subseteq pendingTasks'[v]
       /\ \A id \in pendingTasks[v] : future'[id] = future[id]
       /\ IsPrefix(inbox[v], inbox'[v])
       /\ outbox'[v] = outbox[v]

C9_Step ==
  /\ \A w \in WorkerIds :
       (Delivered(w) /\ Head(outbox[w]).type = "error") => OthersUntouched(w)
  /\ (errorEvents' = errorEvents + 1) =>
       \E w \in WorkerIds : pendingTasks'[w] = {} /\ OthersUntouched(w)

C9_FailureIsolated == [][C9_Step]_vars

\* a worker has failed while another worker of the initialized pool still
\* holds a pending request
C9_Witness ==
  /\ initialized
  /\ \E id \in ComputeIds : future[id] \in {"worker_error", "error"}
  /\ \E i \in 1..Len(workers) :
       \E id \in pendingTasks[workers[i]] : id \in ComputeIds

\* C10 (as claimed): init resolves only after every worker it spawned has
\* answered its init message with a result; if a worker answers init with
\* an error, init rejects and the pool stays uninitialized, so that compute
\* is refused.
C10_Inv ==
  /\ \A c \in DOMAIN initCalls :
       /\ initCalls[c].state = "resolved" =>
            \A t \in initCalls[c].tasks : future[t] = "resolved"
       /\ (\E t \in initCalls[c].tasks : future[t] = "error") =>
            initCalls[c].state = "rejected"
  /\ initialized => \E c \in DOMAIN initCalls : initCalls[c].state = "resolved"

C10_Step ==
  /\ (~initialized /\ initialized') =>
       \E c \in DOMAIN initCalls :
         /\ initCalls[c].state = "waiting"
         /\ initCalls'[c].state = "resolved"
  /\ \A w \in WorkerIds :
       (Delivered(w) /\ Head(outbox[w]).type = "error") =>
          initialized' = initialized
  /\ ~initialized =>
       /\ taskQueue' = taskQueue
       /\ \A id \in DOMAIN future' \ DOMAIN future : id \in InitIds'

\* the init call that a worker's error answer rejects leaves the pool
\* uninitialized
C10_RejectStep ==
  \A c \in DOMAIN initCalls :
    (/\ initCalls[c].state = "waiting"
     /\ initCalls'[c].state = "rejected"
     /\ \E t \in initCalls[c].tasks : future'[t] = "error") => ~initialized'

C10_InitAllOrNothing == []C10_Inv /\ [][C10_Step /\ C10_RejectStep]_vars

\* ------------------------------------------------------------------------
\* Claims about the arena (continued)
\* ------------------------------------------------------------------------

\* the step is a successful allocate: a new handle was handed out
AllocStep == Len(handles') = Len(handles) + 1

NewHandle == handles'[Len(handles')]

Bytes(r) == r[2] * BytesPerElement(r[1])

Tracked(ptr) == \E b \in allocations : b.ptr = ptr

\* C11: every offset returned by allocate, from free-list reuse or from the
\* heap cursor, is a multiple of 8 and is >= the reserved prefix.
C11_OffsetsAligned ==
  \A h \in 1..Len(handles) :
    handles[h].ptr % 8 = 0 /\ handles[h].ptr >= RESERVED_BYTES

\* a block whose size is not a multiple of 8 was followed by a bump
\* allocation and was then released and reused
C11_Witness ==
  \E h1, h2, h3 \in 1..Len(handles) :
    /\ h1 < h2 /\ h2 < h3
    /\ handles[h1].size % 8 # 0
    /\ handles[h2].ptr = handles[h1].ptr + 8
    /\ handles[h3].ptr = handles[h1].ptr

\* C12: when the free list holds exactly one block, of size s at offset X,
\* the next allocate of any size <= s returns X, leaves the heap cursor and
\* the buffer as they are, and does not fail.
C12_Step ==
  Len(freeList) = 1 =>
    /\ (AllocStep /\ NewHandle.size <= freeList[1].size) =>
         /\ NewHandle.ptr = freeList[1].ptr
         /\ heap_ptr' = heap_ptr
         /\ memPages' = memPages
         /\ freeList' = <<>>
    /\ \A r \in Requests :
         Bytes(r) <= freeList[1].size => ~AllocateFail(r[1], r[2])

C12_ReuseFreedOffset == [][C12_Step]_vars

\* a freed block was reused for a smaller request
C12_Witness ==
  /\ freeList = <<>>
  /\ lastOp = [op |-> "allocate", err |-> "none"]
  /\ \E h1, h2 \in 1..Len(handles) :
       /\ h1 < h2
       /\ handles[h2].ptr = handles[h1].ptr
       /\ handles[h2].size > 0
       /\ handles[h2].size < handles[h1].size
       /\ heap_ptr = handles[h1].ptr + handles[h1].size

\* C13: reserved_prefix <= heap_cursor <= capacity <= max_capacity in every
\* reachable state, the maximum being the configured ceiling and the
\* maximum the memory is declared with.
C13_CursorWithinCapacity ==
  /\ RESERVED_BYTES <= heap_ptr
  /\ heap_ptr <= byteLength
  /\ memPages <= config.maxPages
  /\ memPages <= WatMaxPages

\* the buffer has grown and holds a block whose size is not a multiple of 8
C13_Witness ==
  /\ memPages > WatInitialPages
  /\ \E h \in 1..Len(handles) :
       /\ handles[h].size % 8 # 0
       /\ handles[h].ptr + handles[h].size < heap_ptr

\* the capacity the buffer can reach, in pages: the configured ceiling and
\* the maximum of the memory declaration both limit it
MaxCapacityPages ==
  IF config.maxPages < WatMaxPages THEN config.maxPages ELSE WatMaxPages

\* C14 (as claimed): an allocate that misses the free list and whose
\* required growth would take the capacity beyond the maximum fails with
\* OutOfMemory and hands out nothing; no allocate hands out a region that
\* ends beyond the buffer.
C14_Step ==
  /\ \A r \in Requests :
       (/\ AllocateFail(r[1], r[2]) \/ AllocateBump(r[1], r[2])
        /\ byteLength - heap_ptr < Bytes(r)
        /\ memPages + CeilDiv(Bytes(r) - (byteLength - heap_ptr),
                              BYTES_PER_PAGE) > MaxCapacityPages)
       => /\ lastOp' = [op |-> "allocate", err |-> "OUT_OF_MEMORY"]
          /\ handles' = handles
  /\ AllocStep => NewHandle.ptr + NewHandle.size <= byteLength'

C14_OutOfMemoryAtCeiling == [][C14_Step]_vars

\* C15 (as claimed): an allocate grows the buffer exactly when
\* capacity - heap_cursor < requested bytes, and then by the smallest number
\* of pages that makes capacity - heap_cursor >= requested bytes.
C15_StepAsClaimed ==
  \A r \in Requests :
    (\/ AllocateReuse(r[1], r[2])
     \/ AllocateBump(r[1], r[2])
     \/ AllocateFail(r[1], r[2]))
    => /\ memPages' > memPages <=> byteLength - heap_ptr < Bytes(r)
       /\ memPages' > memPages =>
            /\ byteLength' - heap_ptr >= Bytes(r)
            /\ byteLength' - BYTES_PER_PAGE - heap_ptr < Bytes(r)

C15_GrowsExactlyWhenShort == [][C15_StepAsClaimed]_vars

\* C15 (amended): an allocate that misses the free list and succeeds grows
\* the buffer exactly when capacity - heap_cursor < requested bytes, by the
\* smallest number of pages that makes capacity - heap_cursor >= requested
\* bytes; an allocate served from the free list, and one that fails, leave
\* the capacity as it is.
C15_Step ==
  lastOp'.op = "allocate" =>
    \A r \in Requests :
      /\ AllocateBump(r[1], r[2]) =>
           /\ memPages' > memPages <=> byteLength - heap_ptr < Bytes(r)
           /\ memPages' >= memPages
           /\ memPages' > memPages =>
                /\ byteLength' - heap_ptr >= Bytes(r)
                /\ byteLength' - BYTES_PER_PAGE - heap_ptr < Bytes(r)
      /\ (AllocateReuse(r[1], r[2]) \/ AllocateFail(r[1], r[2])) =>
           memPages' = memPages

C15_GrowsOnMissWhenShort == [][C15_Step]_vars

\* the buffer was grown by a whole number of pages that the request fills
\* exactly
C15_Witness ==
  /\ memPages > WatInitialPages
  /\ heap_ptr = byteLength
  /\ lastOp = [op |-> "allocate", err |-> "none"]

\* C16 (as claimed): no block of the free list has the offset of, or
\* overlaps, an allocation (of at least one byte) held by a live view.
C16_FreeListNotAliased ==
  \A i \in 1..Len(freeList), h \in 1..Len(handles) :
    (Live(h) /\ handles[h].size > 0) =>
      /\ freeList[i].ptr # handles[h].ptr
      /\ ~(/\ freeList[i].ptr < handles[h].ptr + handles[h].size
           /\ handles[h].ptr < freeList[i].ptr + freeList[i].size)

\* C18: deallocate of an offset that is not tracked (never allocated,
\* already released, or cleared by reset) raises no error and leaves the
\* allocation table, the free list and the metrics unchanged.
C18_Step ==
  lastOp'.op = "deallocate" =>
    /\ \A h \in 1..Len(handles) :
         (~Tracked(handles[h].ptr) /\ Dispose(h)) =>
            /\ UNCHANGED <<allocations, freeList, metrics>>
            /\ lastOp' = [op |-> "deallocate", err |-> "warn"]
    /\ \A ptr \in NeverAllocated :
         (~Tracked(ptr) /\ Deallocate(ptr)) =>
            /\ UNCHANGED <<allocations, freeList, metrics>>
            /\ lastOp' = [op |-> "deallocate", err |-> "warn"]

C18_UnknownDeallocateIsNoOp == [][C18_Step]_vars

\* an unknown offset was deallocated while blocks were tracked and free
C18_Witness ==
  /\ lastOp = [op |-> "deallocate", err |-> "warn"]
  /\ config.enableTracking
  /\ allocations # {}
  /\ freeList # <<>>
  /\ metrics.currentMemoryUsage > 0

\* C19: reset empties the allocation table and the free list, puts the heap
\* cursor back at the reserved-prefix boundary and the current usage at 0,
\* and leaves the capacity of the buffer unchanged.
C19_Step ==
  lastOp'.op = "reset" =>
    /\ allocations' = {}
    /\ freeList' = <<>>
    /\ heap_ptr' = RESERVED_BYTES
    /\ metrics'.currentMemoryUsage = 0
    /\ memPages' = memPages

C19_ResetRewinds == [][C19_Step]_vars

\* a reset was made on a grown buffer that had handed out blocks
C19_Witness ==
  /\ lastOp.op = "reset"
  /\ memPages > WatInitialPages
  /\ metrics.peakMemoryUsage > 0
  /\ Len(handles) >= 2

\* ------------------------------------------------------------------------
\* Claims about vectors and matrices
\* ------------------------------------------------------------------------

\* the operations on a vector or matrix, as lastOp records them: the
\* mutators (set, setAt, fill, normalize, scale, setIdentity), the reads
\* (getAt, magnitude, norm, mean), add, dotProduct and matrixMultiply
ObjectOps == {"mutator", "read", "add", "dotProduct", "matrixMultiply"}

\* C17 (as claimed): every operation performed on a vector or matrix after
\* its dispose(), mutator, read or kernel call alike, fails with
\* DisposedResourceAccess.
C17_DisposedAccessFails ==
  (lastOp.op \in ObjectOps /\ lastOp.disposedOperand) =>
     lastOp.err = "DISPOSED"

\* ------------------------------------------------------------------------
\* Claims about validatePointer
\* ------------------------------------------------------------------------

\* C20 (as claimed): validate(offset, size) fails with InvalidPointer for
\* every offset below the reserved prefix and for every offset with
\* offset + size > capacity, and succeeds otherwise.
C20_ValidateRejectsReserved ==
  lastOp.op = "getView" =>
    (lastOp.err = "INVALID_POINTER" <=>
       (lastOp.ptr < RESERVED_BYTES \/ lastOp.ptr + lastOp.size > byteLength))

\* ------------------------------------------------------------------------
\* Claims about the metrics and the free list
\* ------------------------------------------------------------------------

C21_Step == metrics'.peakMemoryUsage >= metrics.peakMemoryUsage

\* C21: across any sequence of allocate, deallocate and reset on an
\* initialized arena, the peak usage never decreases and is always >= the
\* current usage.
C21_PeakIsHighWaterMark ==
  /\ [](metrics.peakMemoryUsage >= metrics.currentMemoryUsage)
  /\ [][C21_Step]_vars

\* after a release or a reset the peak reached before it is kept, above
\* the usage of the block handed out since
C21_Witness ==
  /\ config.enableTracking
  /\ \E h1, h2 \in 1..Len(handles) :
       /\ h1 < h2
       /\ ~Live(h1)
       /\ Live(h2)
       /\ handles[h2].ptr = RESERVED_BYTES
       /\ handles[h2].size > 0
  /\ metrics.currentMemoryUsage > 0
  /\ metrics.peakMemoryUsage > metrics.currentMemoryUsage

\* free block i is large enough for the block just handed out
Fits(i) == freeList[i].size >= NewHandle.size

\* C29: when several free blocks are large enough for a request, allocate
\* reuses the one with the smallest recorded size, and among those of equal
\* size the one earliest in the free list; only the chosen block leaves the
\* free list.
C29_Step ==
  (/\ lastOp'.op = "allocate"
   /\ AllocStep
   /\ \E i \in 1..Len(freeList) : Fits(i))
  => \E i \in 1..Len(freeList) :
       /\ Fits(i)
       /\ \A j \in 1..Len(freeList) :
            Fits(j) => \/ freeList[j].size > freeList[i].size
                       \/ freeList[j].size = freeList[i].size /\ j >= i
       /\ NewHandle.ptr = freeList[i].ptr
       /\ freeList' = SubSeq(freeList, 1, i - 1)
                        \o SubSeq(freeList, i + 1, Len(freeList))
       /\ heap_ptr' = heap_ptr

C29_BestFitFirstFound == [][C29_Step]_vars

\* two blocks were free and large enough; the smaller one, released
\* later, was reused and the larger one is still free
C29_Witness ==
  /\ lastOp = [op |-> "allocate", err |-> "none"]
  /\ Len(handles) = 3
  /\ Len(freeList) = 1
  /\ freeList[1].ptr = handles[1].ptr
  /\ freeList[1].size = handles[1].size
  /\ handles[2].size < handles[1].size
  /\ handles[3].ptr = handles[2].ptr
  /\ handles[3].size > 0
  /\ handles[3].size <= handles[2].size
  /\ handles[2].ptr # handles[1].ptr

\* C30: adjacent free blocks are never merged: a deallocate adds its block
\* to the free list and leaves the blocks in it as they are, and an
\* allocate that no single free block can hold (such as 2s bytes after two
\* adjacent blocks of s bytes were released) takes a fresh offset at the
\* heap cursor and leaves every block in the free list.
C30_Step ==
  /\ (lastOp'.op = "deallocate" /\ allocations' # allocations) =>
       /\ Len(freeList') = Len(freeList) + 1
       /\ SubSeq(freeList', 1, Len(freeList)) = freeList
       /\ freeList'[Len(freeList')] \in allocations
  /\ (/\ lastOp'.op = "allocate"
      /\ AllocStep
      /\ \A i \in 1..Len(freeList) : ~Fits(i))
     => /\ NewHandle.ptr = heap_ptr
        /\ freeList' = freeList

C30_NoCoalescing == [][C30_Step]_vars

\* two adjacent blocks of s bytes are free and a block of 2s bytes was
\* placed behind them
C30_Witness ==
  /\ lastOp = [op |-> "allocate", err |-> "none"]
  /\ Len(handles) = 3
  /\ Len(freeList) = 2
  /\ handles[1].size > 0
  /\ handles[2].size = handles[1].size
  /\ handles[2].ptr = handles[1].ptr + handles[1].size
  /\ {freeList[1], freeList[2]} =
       {[ptr |-> handles[h].ptr, size |-> handles[h].size] : h \in {1, 2}}
  /\ handles[3].size = 2 * handles[1].size
  /\ handles[3].ptr = handles[2].ptr + handles[2].size
  /\ heap_ptr = handles[3].ptr + handles[3].size

\* C35: reusing a free block for a smaller request does not shrink the
\* block.  After allocate(s) returned X, deallocate(X), allocate(t) with
\* 0 < t < s returned X again and deallocate(X), the block X is the only
\* free block; a following allocate(s) returns X.
C35_Step ==
  (/\ Len(handles) = 2
   /\ handles[2].ptr = handles[1].ptr
   /\ handles[2].size > 0
   /\ handles[2].size < handles[1].size
   /\ ~Live(1) /\ ~Live(2)
   /\ Len(freeList) = 1
   /\ freeList[1].ptr = handles[1].ptr
   /\ lastOp'.op = "allocate"
   /\ AllocStep
   /\ NewHandle.size = handles[1].size)
  => NewHandle.ptr = handles[1].ptr

C35_ReuseKeepsBlockSize == [][C35_Step]_vars

\* the sum of the sizes of the blocks of a set of blocks
RECURSIVE SumOfSizes(_)
SumOfSizes(blocks) ==
  IF blocks = {} THEN 0
  ELSE LET b == CHOOSE x \in blocks : TRUE
       IN b.size + SumOfSizes(blocks \ {b})

\* C36: with tracking enabled, after every allocate, deallocate and reset
\* the reported current memory usage equals the sum of the sizes of the
\* blocks in the allocation table.
C36_UsageIsSumOfTracked ==
  config.enableTracking =>
    metrics.currentMemoryUsage = SumOfSizes(allocations)

\* C37: an allocate that fails with OutOfMemory leaves the allocator as it
\* was: allocation table, free list, heap cursor, capacity and all metrics
\* are unchanged.
C37_Step ==
  (lastOp'.op = "allocate" /\ lastOp'.err = "OUT_OF_MEMORY")
  => UNCHANGED <<allocations, freeList, heap_ptr, memPages, metrics>>

C37_FailedAllocateChangesNothing == [][C37_Step]_vars

\* a failed allocate on an arena that holds a tracked block and a free block
C37_Witness ==
  /\ lastOp = [op |-> "allocate", err |-> "OUT_OF_MEMORY"]
  /\ allocations # {}
  /\ freeList # <<>>
  /\ metrics.currentMemoryUsage > 0
  /\ heap_ptr > RESERVED_BYTES

\* ------------------------------------------------------------------------
\* Claims about the engine calls
\* ------------------------------------------------------------------------

\* C22: matrixMultiply(a, b) with a.cols different from b.rows fails, and
\* before a result matrix is allocated: the allocation table, the free
\* list, the heap cursor and the metrics are unchanged.
C22_Step ==
  lastOp'.op = "matrixMultiply" =>
    \A a, b \in Matrices :
      MultiplyMismatch(a, b) =>
        /\ lastOp'.err = "Error"
        /\ UNCHANGED <<allocations, freeList, heap_ptr, metrics>>
        /\ UNCHANGED <<handles, objects, memPages>>

C22_MismatchAllocatesNothing == [][C22_Step]_vars

\* a multiplication of two live matrices whose dimensions do not match has
\* failed while blocks were tracked and free
C22_Witness ==
  /\ lastOp.op = "matrixMultiply"
  /\ lastOp.err = "Error"
  /\ ~lastOp.disposedOperand
  /\ allocations # {}
  /\ freeList # <<>>
  /\ metrics.currentMemoryUsage > 0

\* C24 (as claimed): after an allocate that grows the buffer, the typed
\* view of every live vector and matrix made before the growth is a view of
\* the current buffer, so no mutator writes through the buffer that
\* memory.grow detached.
C24_ViewsFollowGrowth ==
  \A o \in ObjectIds :
    (Live(o) /\ ~objects[o].disposed) => ~Detached(o)

\* C39: dispose() of a vector or matrix is idempotent.  A dispose() of an
\* object that is already disposed deallocates nothing: the allocation
\* table, the free list and the metrics stay as they are, so a block that
\* another object obtained by reuse is not released.
C39_Step ==
  (lastOp'.op = "dispose" /\ lastOp'.disposedOperand)
  => UNCHANGED <<allocations, freeList, metrics, heap_ptr, objects>>

C39_DisposeIdempotent == [][C39_Step]_vars

\* a repeated dispose() of an object whose block is held by a later object
C39_Witness ==
  /\ lastOp.op = "dispose" /\ lastOp.disposedOperand
  /\ \E o, n \in ObjectIds :
       /\ o < n
       /\ objects[o].disposed /\ ~objects[n].disposed
       /\ handles[n].ptr = handles[o].ptr
       /\ handles[n].size > 0
       /\ [ptr |-> handles[n].ptr, size |-> handles[n].size] \in allocations
  /\ metrics.totalDeallocations = 1
  /\ freeList = <<>>

\* ------------------------------------------------------------------------
\* Claims about the kernels
\* ------------------------------------------------------------------------

\* cell (i, j) of the matrix m laid out in the memory
Cell(m, i, j) == linear[m.ptr + 8 * (i * m.cols + j)]

\* C23: for every rows x cols matrix A, transposing A into a cols x rows
\* buffer and transposing that result back yields a matrix equal to A
\* element by element.
C23_TransposeTwiceIsIdentity ==
  Len(mats) >= 3 =>
    /\ mats[3].rows = mats[1].rows
    /\ mats[3].cols = mats[1].cols
    /\ \A i \in 0..(mats[1].rows - 1), j \in 0..(mats[1].cols - 1) :
         /\ Cell(mats[3], i, j) = Cell(mats[1], i, j)
         /\ Cell(mats[2], j, i) = Cell(mats[1], i, j)

\* a matrix that is not square, with two different cells, was transposed
\* twice
C23_Witness ==
  /\ Len(mats) >= 3
  /\ mats[1].rows # mats[1].cols
  /\ mats[1].rows > 1
  /\ mats[1].cols > 1
  /\ Cell(mats[1], 0, 1) # Cell(mats[1], 1, 0)

\* ------------------------------------------------------------------------
\* Claims about the worker pool (continued)
\* ------------------------------------------------------------------------

\* the step posts a compute message to worker w
DispatchedTo(w) ==
  /\ Len(inbox'[w]) = Len(inbox[w]) + 1
  /\ inbox'[w][Len(inbox'[w])].type = "compute"

\* C25 (as claimed): the pool never sends a compute request to a worker
\* that has not yet answered its init message with a result, also when
\* init is run again or called while an earlier call is waiting.
C25_Step == \A w \in WorkerIds : DispatchedTo(w) => wasm[w]

C25_InitResultBeforeCompute == [][C25_Step]_vars

\* request id waits in the overflow queue
Queued(id) == \E k \in 1..Len(taskQueue) : taskQueue[k] = id

\* C26 (as claimed): every request placed on the overflow queue is
\* eventually dispatched to a worker, unless the pool is terminated,
\* provided every request sent to a worker ends by a response or by a
\* worker error event.  (A request leaves the queue only by being
\* dispatched or by terminate(); the ids up to SaturationCap + 1 are never
\* queued: one is an init and SaturationCap requests are pending first.)
C26_QueuedEventuallyDispatched ==
  \A id \in (SaturationCap + 2)..MaxTasks : Queued(id) ~> ~Queued(id)

\* C27 (as claimed): after an init that failed because the bootstrap of a
\* worker failed, running init again to success leaves the pool with
\* exactly the worker_count workers of that call, every one of which has
\* completed its init.
C27_RerunInitRecovers ==
  LET last == Len(initCalls)
  IN (/\ last >= 2
      /\ initCalls[last].rerun
      /\ \E t \in initCalls[last - 1].tasks : future[t] = "error"
      /\ initCalls[last].state = "resolved"
      /\ initialized)
     => /\ Len(workers) = Cardinality(initCalls[last].tasks)
        /\ \A i \in 1..Len(workers) : wasm[workers[i]]

\* the ids of taskQueue[1..n] are pending at a worker
HeadsDispatched(n) ==
  \A k \in 1..n :
    \E w \in WorkerIds :
      /\ taskQueue[k] \in pendingTasks'[w]
      /\ \E p \in 1..Len(inbox'[w]) :
           /\ inbox'[w][p] = [type |-> "compute", id |-> taskQueue[k]]
           /\ \A l \in (k + 1)..n, q \in 1..Len(inbox'[w]) :
                inbox'[w][q].id = taskQueue[l] => p < q

\* C28: requests leave the overflow queue in the order in which they
\* entered it: a request enters at the tail, only the requests at the head
\* leave, and they are dispatched head first (or dropped together by
\* terminate()).
C28_Step ==
  \E n \in 0..Len(taskQueue) :
    /\ \/ taskQueue' = SubSeq(taskQueue, n + 1, Len(taskQueue))
       \/ /\ n = 0
          /\ taskQueue' = Append(taskQueue, taskIdCounter')
          /\ taskIdCounter' = taskIdCounter + 1
    /\ n > 0 => (HeadsDispatched(n) \/ (n = Len(taskQueue) /\ workers' = <<>>))

C28_QueueIsFifo == [][C28_Step]_vars

\* the older of two queued requests was dispatched and the younger waits
C28_Witness ==
  /\ Len(taskQueue) = 1
  /\ burstQueued = taskQueue[1] - 1
  /\ \E w \in WorkerIds :
       /\ burstQueued \in pendingTasks[w]
       /\ \E p \in 1..Len(inbox[w]) :
            inbox[w][p] = [type |-> "compute", id |-> burstQueued]

\* C31: whenever a pool operation or message handler has finished, the
\* published active worker count is the number of workers of the pool with
\* at least one pending request, and the published queued task count is
\* the length of the overflow queue.
C31_PublishedCountsMatch ==
  /\ activeWorkers =
       Cardinality({i \in 1..Len(workers) : pendingTasks[workers[i]] # {}})
  /\ queuedTasks = Len(taskQueue)

\* a request waits in the queue of a pool whose worker has lost its pending
\* requests to an error event
C31_Witness ==
  /\ workers # <<>>
  /\ queuedTasks >= 1
  /\ activeWorkers = 0
  /\ errorEvents >= 1

\* C33 (as claimed): whenever the overflow queue is non-empty and no pool
\* handler is running, every worker of the pool has at least 10 pending
\* requests; so a new request is never dispatched to a worker while an
\* earlier request waits in the queue.
C33_Step ==
  /\ taskQueue # <<>> =>
       \A i \in 1..Len(workers) :
         Cardinality(pendingTasks[workers[i]]) >= SaturationCap
  /\ \A w \in WorkerIds :
       (DispatchedTo(w) /\ taskIdCounter' = taskIdCounter + 1) =>
         taskQueue = <<>>

C33_QueueImpliesSaturation == [][C33_Step]_vars

\* C34 (as claimed): a call of init made while an earlier init of the pool
\* is waiting for its workers spawns no additional workers, so that after
\* both calls have settled the pool has the worker_count of the first call.
C34_Step ==
  (/\ \E c \in DOMAIN initCalls : initCalls[c].state = "waiting"
   /\ Len(initCalls') = Len(initCalls) + 1)
  => /\ workers' = workers
     /\ wstate' = wstate

C34_OverlappingInitSpawnsNothing == [][C34_Step]_vars

\* ------------------------------------------------------------------------
\* Claims about the arena of a worker
\* ------------------------------------------------------------------------

\* C38 (as claimed): inside a worker the heap cursor of the private arena
\* never exceeds the capacity of its buffer, for any sequence of compute
\* requests that carry a transfer payload.
C38_CursorWithinBuffer == privateHeapPtr <= privateByteLength

\* ------------------------------------------------------------------------
\* Claims about the state of the engine
\* ------------------------------------------------------------------------

\* a call of init() was made in this step
InitCalled == Len(inits') = Len(inits) + 1

\* C40: the state only moves uninitialized -> loading, loading -> ready,
\* loading -> error and error -> loading; ready is never left; init() on a
\* ready engine is a no-op; init() while the state is loading fails with
\* INIT_FAILED, leaves the state at loading and starts no second load.
C40_Step ==
  /\ state' # state =>
       <<state, state'>> \in {<<"uninitialized", "loading">>,
                              <<"loading", "ready">>,
                              <<"loading", "error">>,
                              <<"error", "loading">>}
  /\ (InitCalled /\ state = "ready") =>
       /\ inits'[Len(inits')] = "resolved"
       /\ UNCHANGED <<state, error, engineWasm, loads, memVars>>
  /\ (InitCalled /\ state = "loading") =>
       /\ inits'[Len(inits')] = "INIT_FAILED"
       /\ UNCHANGED <<state, error, engineWasm, loads, memVars>>
  /\ loads' <= 1

C40_StateMachine == [][C40_Step]_vars

\* a load failed, the next init() started a second load, an init() made
\* during a load was rejected, the load succeeded and one more init() was a
\* no-op on the ready engine
C40_Witness ==
  /\ state = "ready"
  /\ lastOp = [op |-> "init", err |-> "none"]
  /\ \E a, b, c, d \in DOMAIN inits :
       /\ a < b /\ b < c /\ c < d
       /\ inits[a] = "INIT_FAILED after load"
       /\ inits[b] = "resolved"
       /\ inits[c] = "INIT_FAILED"
       /\ inits[d] = "resolved"
       /\ d = Len(inits)

\* ------------------------------------------------------------------------
\* Claims about memoizedComputation
\* ------------------------------------------------------------------------

\* the cached key that was asked for longest ago
LeastRecentlyUsed ==
  CHOOSE k \in cache :
    \A j \in cache \ {k} :
      \E p, q \in 1..Len(recency) :
        recency[p] = k /\ recency[q] = j /\ p < q

\* C32 (as claimed): when the cache is full, memoizedComputation evicts the
\* least recently used key, an insertion and a cache hit both making a key
\* the most recently used one; the cache never holds more than maxSize
\* entries.
C32_Step ==
  /\ Cardinality(cache') <= maxSize
  /\ (cache \ cache' # {}) => (cache \ cache' = {LeastRecentlyUsed})

C32_EvictsLeastRecentlyUsed == [][C32_Step]_vars

====
